---- MODULE Spec2Model ----
(***************************************************************************)
(* A model of the WoW automation bot: the IAM token manager, the bot       *)
(* orchestrator (WoWBot), the game-environment facades and the LLM-backed  *)
(* action planner.  Each component has its own variables and its own       *)
(* specification; the components share one module and one Init.            *)
(***************************************************************************)
EXTENDS Integers, Sequences, FiniteSets, TLC

VARIABLES
    \* ---- YandexIAMTokenManager (src/tests/YandexIAMTokenManager.py)
    iam_token,      \* self.iam_token: None or <<token>>
    expires_at,     \* self.expires_at: None or <<time>>
    utcnow,         \* the clock read by datetime.utcnow()
    exchanges,      \* number of requests.post calls to the IAM endpoint so far
    tokCall,        \* the last get_iam_token() call: the response, the outcome
    tokLog          \* history: was a call served from the cache, did an exchange fail

tokenVars == <<iam_token, expires_at, utcnow, exchanges, tokCall, tokLog>>

VARIABLES
    \* ---- WoWBot (src/main.py)
    pc,             \* where the main thread is
    components,     \* the components _init_components has constructed
    loop_counter,   \* run(): loop_counter
    error_count,    \* run(): error_count
    action_history, \* self.action_history
    botClock,       \* the wall clock, advanced by the sleeps of the loop
    game_state,     \* _game_loop(): game_state (None or <<record>>)
    action,         \* _game_loop(): action (None or <<record>>)
    iter,           \* the calls made by the current iteration, and their outcomes
    moverLog,       \* every mover.execute call: its argument and how it ended
    shutdownLog     \* what _shutdown has done, and why the loop was left

botVars == <<pc, components, loop_counter, error_count, action_history, botClock,
             game_state, action, iter, moverLog, shutdownLog>>

VARIABLES
    \* ---- the environment facades (src/wow_environment.py,
    \*      src/environment/wow_environment.py, src/envs/wow_environment.py,
    \*      src/envs/wow_environment_TEST.py)
    envVariant,      \* which facade class was constructed ("none": not yet)
    camera,          \* envs: self.camera ("none", "created", "started")
    capture_region,  \* envs: self.capture_region (None or <<region>>)
    last_frame_time, \* envs: self.last_frame_time
    envNow,          \* the clock read by time.time()
    envRet,          \* the last get_game_state() call: raised, or the record
    envLog,          \* history: calls made, backend reads, did every read raise,
                     \* and the outcome of every camera restart so far
    envInit,         \* envs: what the constructor did (steps, cleanup, raised)
    envCapture       \* envs: the last capture_frame() call

envVars == <<envVariant, camera, capture_region, last_frame_time, envNow, envRet,
             envLog, envInit, envCapture>>

VARIABLES
    \* ---- ActionPlanner and LLMAdapter (src/agents/action_planner.py)
    last_action,     \* ActionPlanner.last_action (None or <<record>>)
    planner_history, \* ActionPlanner.action_history
    llm_cache,       \* LLMAdapter.cache, a set of <<key, response>> pairs
    providerCalls,   \* number of llm_provider.generate_completion calls so far
    planRet          \* the last plan_action() call: its inputs and its result

plannerVars == <<last_action, planner_history, llm_cache, providerCalls, planRet>>

VARIABLES
    \* ---- generate_plan (src/planner.py)
    gen_state,       \* the state generate_plan was last called with (None at first)
    gen_plan         \* the plan that call returned

genVars == <<gen_state, gen_plan>>

VARIABLES
    \* ---- the AST code validators (src/utils/safety_checker.py,
    \*      src/utils/code_utils.py, src/utils/code_validator.py)
    val_variant,     \* which validator was called last ("none": none yet)
    val_snippet,     \* the snippet it was called with
    val_result       \* what it returned

valVars == <<val_variant, val_snippet, val_result>>

VARIABLES
    \* ---- code generation and execution (src/agents/code_generator.py,
    \*      src/agents/decision_engine.py, src/agents/action_executor.py)
    max_retries,     \* CodeGenerator.max_retries (None until constructed)
    error_feedback,  \* CodeGenerator.error_feedback
    cg_pc,           \* generate_action_code: "idle", or "loop" while it runs
    cg_attempt,      \* generate_action_code: attempt, the loop variable
    cg_call,         \* the current or last generate_action_code call
    handed,          \* the value a generator returned last (None: nothing yet)
    exec_log         \* ActionExecutor.execute_code: the calls and the last one

codegenVars == <<max_retries, error_feedback, cg_pc, cg_attempt, cg_call, handed,
                 exec_log>>

VARIABLES
    \* ---- SkillLibrary (src/agents/skill_library.py)
    skills,          \* self.skills: the dict, as its entries in insertion order
    skills_file,     \* the content of the file at self.file_path
    skill_adds,      \* number of add_skill calls so far
    skill_find       \* the last find_skill call since the last add_skill: its
                     \* argument and its result

skillVars == <<skills, skills_file, skill_adds, skill_find>>

VARIABLES
    \* ---- YandexVisionProcessor._send_request
    \*      (src/tests/yandex_vision_processor.py)
    vis_max_retries, \* self.max_retries (None before the constructor ran)
    vis_pc,          \* _send_request: "idle", or "loop" while it runs
    vis_attempt,     \* _send_request: attempt, the loop variable
    vis_sent,        \* the outcome of each requests.post of the current call
    vis_slept,       \* the time.sleep arguments of the current call
    vis_ret          \* how the call ended: "none", "json", "None", "raised"

visionVars == <<vis_max_retries, vis_pc, vis_attempt, vis_sent, vis_slept, vis_ret>>

VARIABLES
    \* ---- MovementController.execute (src/agents/movement_controller.py,
    \*      src/controllers/movement_controller.py)
    mv_variant,      \* which controller class was called last ("none": none yet)
    mv_action,       \* the action record execute was called with
    mv_events,       \* the mouse and keyboard events the call emitted
    mv_ret           \* how the call ended: "none", "returned", "raised"

moveVars == <<mv_variant, mv_action, mv_events, mv_ret>>

VARIABLES
    \* ---- ConfigLoader (src/utils/config_loader.py)
    config,          \* self.config: None until loaded, then <<document>>
    cfg_load,        \* how the constructor ended: "none", "loaded", "raised"
    cfg_get          \* the last get(key, default) call: its key and its outcome

configVars == <<config, cfg_load, cfg_get>>

VARIABLES
    \* ---- parse_health_mana (src/utils/WoWGameStateParser.py)
    hm_value,        \* the value parse_health_mana was last called with
    hm_ret           \* what that call returned (None before the first call)

healthVars == <<hm_value, hm_ret>>

VARIABLES
    \* ---- TemplateCapture (src/TemplateCapture.py)
    templates,       \* self.templates: per object type, the shapes of its samples
    tc_last          \* the last _capture_template call: position, type, outcome

templateVars == <<templates, tc_last>>

VARIABLES
    \* ---- WoWGameStateParser (src/utils/WoWGameStateParser.py)
    text_blocks,     \* self.text_blocks (None before the constructor ran)
    parsed_state     \* the last parse_game_state() result (None: not called)

parserVars == <<text_blocks, parsed_state>>

VARIABLES
    \* ---- MovementController.move_to (src/agents/movement_controller.py)
    mt_call          \* the last move_to call: cursor, position, jittered end,
                     \* the branch taken and the points the cursor was moved to

pathVars == <<mt_call>>

vars == <<tokenVars, botVars, envVars, plannerVars, genVars, valVars,
        codegenVars, skillVars, visionVars, moveVars, configVars, healthVars,
        templateVars, parserVars, pathVars>>

\* each component's actions leave the other components alone
TokenFrame == UNCHANGED <<botVars, envVars, plannerVars, genVars, valVars,
        codegenVars, skillVars, visionVars, moveVars, configVars, healthVars,
        templateVars, parserVars, pathVars>>
BotFrame == UNCHANGED <<tokenVars, envVars, plannerVars, genVars, valVars,
        codegenVars, skillVars, visionVars, moveVars, configVars, healthVars,
        templateVars, parserVars, pathVars>>
EnvFrame == UNCHANGED <<tokenVars, botVars, plannerVars, genVars, valVars,
        codegenVars, skillVars, visionVars, moveVars, configVars, healthVars,
        templateVars, parserVars, pathVars>>
PlannerFrame == UNCHANGED <<tokenVars, botVars, envVars, genVars, valVars,
        codegenVars, skillVars, visionVars, moveVars, configVars, healthVars,
        templateVars, parserVars, pathVars>>
GenFrame == UNCHANGED <<tokenVars, botVars, envVars, plannerVars, valVars,
        codegenVars, skillVars, visionVars, moveVars, configVars, healthVars,
        templateVars, parserVars, pathVars>>
ValFrame == UNCHANGED <<tokenVars, botVars, envVars, plannerVars, genVars,
        codegenVars, skillVars, visionVars, moveVars, configVars, healthVars,
        templateVars, parserVars, pathVars>>
CodeGenFrame == UNCHANGED <<tokenVars, botVars, envVars, plannerVars,
        genVars, valVars, skillVars, visionVars, moveVars, configVars,
        healthVars, templateVars, parserVars, pathVars>>
SkillFrame == UNCHANGED <<tokenVars, botVars, envVars, plannerVars, genVars,
        valVars, codegenVars, visionVars, moveVars, configVars, healthVars,
        templateVars, parserVars, pathVars>>
VisionFrame == UNCHANGED <<tokenVars, botVars, envVars, plannerVars, genVars,
        valVars, codegenVars, skillVars, moveVars, configVars, healthVars,
        templateVars, parserVars, pathVars>>
MoveFrame == UNCHANGED <<tokenVars, botVars, envVars, plannerVars, genVars,
        valVars, codegenVars, skillVars, visionVars, configVars, healthVars,
        templateVars, parserVars, pathVars>>
ConfigFrame == UNCHANGED <<tokenVars, botVars, envVars, plannerVars, genVars,
        valVars, codegenVars, skillVars, visionVars, moveVars, healthVars,
        templateVars, parserVars, pathVars>>
HealthFrame == UNCHANGED <<tokenVars, botVars, envVars, plannerVars, genVars,
        valVars, codegenVars, skillVars, visionVars, moveVars, configVars,
        templateVars, parserVars, pathVars>>
TemplateFrame == UNCHANGED <<tokenVars, botVars, envVars, plannerVars,
        genVars, valVars, codegenVars, skillVars, visionVars, moveVars,
        configVars, healthVars, parserVars, pathVars>>
ParserFrame == UNCHANGED <<tokenVars, botVars, envVars, plannerVars, genVars,
        valVars, codegenVars, skillVars, visionVars, moveVars, configVars,
        healthVars, templateVars, pathVars>>
PathFrame == UNCHANGED <<tokenVars, botVars, envVars, plannerVars, genVars,
        valVars, codegenVars, skillVars, visionVars, moveVars, configVars,
        healthVars, templateVars, parserVars>>

\* Python's None, and a present optional value
None == <<>>
Some(x) == <<x>>
TheVal(o) == o[1]

(***************************************************************************)
(* YandexIAMTokenManager                                                   *)
(***************************************************************************)
MaxTime == 4          \* the clock runs over 0..MaxTime
MaxExchanges == 3     \* cap on the exchange counter
Lifetime == 2         \* timedelta(hours=11, minutes=55), in clock ticks

Tokens == {"t1", "t2"}          \* non-empty iamToken strings the server issues

\* the expiresAt strings of a response: a well-formed ISO timestamp for time t
\* (with or without the trailing 'Z'), or a string fromisoformat rejects
ExpiresAtStrings ==
    [wellformed : {TRUE}, time : 0..(MaxTime + 1), z : BOOLEAN]
        \cup {[wellformed |-> FALSE, time |-> 0, z |-> TRUE]}

\* datetime.fromisoformat(expires_at_str.rstrip('Z')): the time, or None when
\* the call raises ValueError
ParseExpiresAt(s) == IF s.wellformed THEN Some(s.time) ELSE None

\* what requests.post / raise_for_status / response.json() can produce
TokenResponses ==
    [kind : {"ok"}, token : Tokens, expiresAt : {Some(s) : s \in ExpiresAtStrings} \cup {None}]
        \cup [kind : {"http_error", "network_error", "no_iamToken"},
              token : {"t1"}, expiresAt : {None}]

NoResponse == [kind |-> "none", token |-> "", expiresAt |-> None]

TokenInit ==
    /\ iam_token = None
    /\ expires_at = None
    /\ utcnow = 0
    /\ exchanges = 0
    /\ tokCall = [kind |-> "none", resp |-> NoResponse, raised |-> FALSE, ret |-> None]
    /\ tokLog = [hit |-> FALSE, failed |-> FALSE]

\* the cache test without the expiry comparison
TokenIsValidIgnoringExpiry == iam_token # None /\ TheVal(iam_token) # ""

\* line 69: self.iam_token and self.expires_at and datetime.utcnow() < self.expires_at
TokenIsValid ==
    /\ iam_token # None /\ TheVal(iam_token) # ""
    /\ expires_at # None /\ utcnow < TheVal(expires_at)

\* lines 77-103, the assignments of one exchange answered by resp:
\* the new iam_token and expires_at, whether the call raises, and its result
Exchange(resp) ==
    IF resp.kind # "ok"
    THEN \* post / raise_for_status raised, or token_data["iamToken"] is a KeyError
         [tok |-> iam_token, exp |-> expires_at, raised |-> TRUE, ret |-> None]
    ELSE IF resp.expiresAt = None
    THEN [tok |-> Some(resp.token), exp |-> Some(utcnow + Lifetime),
          raised |-> FALSE, ret |-> Some(resp.token)]
    ELSE IF ParseExpiresAt(TheVal(resp.expiresAt)) = None
    THEN \* line 82 has already stored the token when line 88 raises
         [tok |-> Some(resp.token), exp |-> expires_at, raised |-> TRUE, ret |-> None]
    ELSE [tok |-> Some(resp.token), exp |-> ParseExpiresAt(TheVal(resp.expiresAt)),
          raised |-> FALSE, ret |-> Some(resp.token)]

\* get_iam_token(), one call; resp is what the IAM endpoint answers if asked
GetIamToken ==
    /\ IF TokenIsValid
       THEN /\ tokCall' = [kind |-> "cached", resp |-> NoResponse, raised |-> FALSE,
                           ret |-> iam_token]
            /\ tokLog' = [tokLog EXCEPT !.hit = TRUE]
            /\ UNCHANGED <<iam_token, expires_at, utcnow, exchanges>>
       ELSE \E resp \in TokenResponses :
                /\ exchanges < MaxExchanges
                /\ exchanges' = exchanges + 1
                /\ LET r == Exchange(resp) IN
                       /\ iam_token' = r.tok
                       /\ expires_at' = r.exp
                       /\ tokCall' = [kind |-> "exchange", resp |-> resp,
                                      raised |-> r.raised, ret |-> r.ret]
                       /\ tokLog' = [tokLog EXCEPT !.failed = @ \/ r.raised]
                /\ UNCHANGED utcnow
    /\ TokenFrame

\* time passes between calls
TokenTick ==
    /\ utcnow < MaxTime
    /\ utcnow' = utcnow + 1
    /\ UNCHANGED <<iam_token, expires_at, exchanges, tokCall, tokLog>>
    /\ TokenFrame

NextToken == GetIamToken \/ TokenTick

(***************************************************************************)
(* WoWBot: the orchestrator                                                *)
(***************************************************************************)
MaxLoops == 3         \* the run loop is followed for MaxLoops iterations

\* dict.get("status"): the value, or "None" when the key is missing
StatusOf(rec) == IF "status" \in DOMAIN rec THEN rec.status ELSE "None"

\* records the environment facades hand to the bot
GameStateRecords ==
    { [status |-> "success", frame |-> "frame", enemies |-> <<<<100, 100>>>>,
       npcs |-> <<>>, position |-> <<960, 540>>],
      [status |-> "success", position |-> <<5, 5>>, health |-> 40,
       enemies |-> <<>>, npcs |-> <<>>],
      [status |-> "error", reason |-> "no frame"],
      [status |-> "active", frame_shape |-> "shape"],
      [enemies |-> <<>>, npcs |-> <<>>, frame |-> "frame"] }

\* records the planner hands to the bot
PlanRecords ==
    { [status |-> "success", action |-> "attack",
       target |-> [type |-> "enemy", position |-> <<100, 100>>], reason |-> "enemy near"],
      [status |-> "success", action |-> "fly", reason |-> "no handler for this"],
      [status |-> "success", reason |-> "no action key"],
      [status |-> "error", action |-> "None", reason |-> "bad response"],
      [action |-> "move", target |-> [type |-> "npc", position |-> <<7, 7>>],
       reason |-> "no status key"] }

\* what a component call can raise: an ordinary Exception, or one whose
\* str() raises in turn (the except handlers of main.py format str(e))
Exceptions == {"exc", "exc_badstr"}

Components == <<"llm_provider", "planner", "mover", "env">>

LoopPcs == {"loop_top", "collect", "plan", "record", "call_mover", "executing",
            "loop_tail"}

NoIter == [env |-> 0, plan |-> 0, exec |-> 0, hist |-> 0,
           envOut |-> "none", planOut |-> "none", execOut |-> "none",
           escaped |-> FALSE]

BotInit ==
    /\ pc = "start"
    /\ components = {}
    /\ loop_counter = 0
    /\ error_count = 0
    /\ action_history = <<>>
    /\ botClock = 0
    /\ game_state = None
    /\ action = None
    /\ iter = NoIter
    /\ moverLog = <<>>
    /\ shutdownLog = [cleanup |-> FALSE, stats |-> FALSE, why |-> "none"]

\* __init__ and _init_components, lines 14-24 and 42-100: the components are
\* constructed in order; failing is the step that raises ("none": no step;
\* "probe": the get_game_state probe of line 82 raised or was not "success").
\* The except of line 92 re-raises, the exception leaves the constructor and
\* run() is never entered.
Construct ==
    /\ pc = "start"
    /\ \E failing \in {"none", "llm_provider", "planner", "mover", "env", "probe"} :
        LET n == CHOOSE k \in 0..4 :
                   IF failing \in {"none", "probe"} THEN k = 4
                   ELSE Components[k + 1] = failing
        IN  /\ components' = {Components[i] : i \in 1..n}
            /\ pc' = IF failing = "none" THEN "run" ELSE "crashed"
            /\ shutdownLog' = [shutdownLog EXCEPT
                                 !.why = IF failing = "none" THEN @ ELSE "startup"]
    /\ UNCHANGED <<loop_counter, error_count, action_history, botClock,
                   game_state, action, iter, moverLog>>
    /\ BotFrame

\* run(), lines 104-111: the loop is entered
RunStart ==
    /\ pc = "run"
    /\ pc' = "loop_top"
    /\ UNCHANGED <<components, loop_counter, error_count, action_history, botClock,
                   game_state, action, iter, moverLog, shutdownLog>>
    /\ BotFrame

\* lines 112-117: the head of one iteration
LoopTop ==
    /\ pc = "loop_top"
    /\ loop_counter < MaxLoops
    /\ loop_counter' = loop_counter + 1
    /\ iter' = [NoIter EXCEPT !.hist = Len(action_history)]
    /\ game_state' = None
    /\ action' = None
    /\ pc' = "collect"
    /\ UNCHANGED <<components, error_count, action_history, botClock, moverLog,
                   shutdownLog>>
    /\ BotFrame

\* a _collect_game_data that hands on whatever record it got
CollectGameDataTrusting(rec) == Some(rec)

\* _collect_game_data, lines 167-181, when get_game_state returns rec
CollectGameData(rec) == IF StatusOf(rec) # "success" THEN None ELSE Some(rec)

\* where run() goes after an exception left _game_loop, when it re-raised
AfterLoopErrorReraise == "shutdown"

\* lines 121-127: the inner except of run() logs, sleeps and goes on
AfterLoopError == "loop_tail"

\* an exception e raised inside one of the three helpers: the helper's
\* except logs str(e) and returns None; when str(e) raises, that second
\* exception leaves _game_loop and reaches the inner except of run()
Escapes(e) == e = "exc_badstr"

\* step 1 of _game_loop, lines 148-152 with _collect_game_data
Collect ==
    /\ pc = "collect"
    /\ \/ \E rec \in GameStateRecords :
            /\ game_state' = CollectGameData(rec)
            /\ iter' = [iter EXCEPT !.env = @ + 1,
                          !.envOut = IF StatusOf(rec) = "success"
                                     THEN "success" ELSE "nonsuccess"]
            /\ pc' = IF game_state' = None THEN "loop_tail" ELSE "plan"
            /\ botClock' = IF game_state' = None THEN botClock + 1 ELSE botClock
            /\ UNCHANGED error_count
       \/ \E e \in Exceptions :
            /\ game_state' = None
            /\ iter' = [iter EXCEPT !.env = @ + 1, !.envOut = "raised",
                                    !.escaped = Escapes(e)]
            /\ pc' = IF Escapes(e) THEN AfterLoopError ELSE "loop_tail"
            /\ error_count' = IF Escapes(e) THEN error_count + 1 ELSE error_count
            /\ botClock' = botClock + (IF Escapes(e) THEN 2 ELSE 1)
    /\ UNCHANGED <<components, loop_counter, action_history, action, moverLog,
                   shutdownLog>>
    /\ BotFrame

\* _plan_action, lines 205-219, when plan_action returns rec: line 216 reads
\* action['action'], a KeyError caught by line 221 when the key is missing
PlanAction(rec) ==
    IF StatusOf(rec) # "success" THEN None
    ELSE IF "action" \notin DOMAIN rec THEN None
    ELSE Some(rec)

\* step 2 of _game_loop, lines 155-158 with _plan_action
Plan ==
    /\ pc = "plan"
    /\ \/ \E rec \in PlanRecords :
            /\ action' = PlanAction(rec)
            /\ iter' = [iter EXCEPT !.plan = @ + 1,
                          !.planOut = IF StatusOf(rec) = "success"
                                      THEN "success" ELSE "nonsuccess"]
            /\ pc' = IF action' = None THEN "loop_tail" ELSE "record"
            /\ UNCHANGED error_count
            /\ UNCHANGED botClock
       \/ \E e \in Exceptions :
            /\ action' = None
            /\ iter' = [iter EXCEPT !.plan = @ + 1, !.planOut = "raised",
                                    !.escaped = Escapes(e)]
            /\ pc' = IF Escapes(e) THEN AfterLoopError ELSE "loop_tail"
            /\ error_count' = IF Escapes(e) THEN error_count + 1 ELSE error_count
            /\ botClock' = botClock + (IF Escapes(e) THEN 2 ELSE 0)
    /\ UNCHANGED <<components, loop_counter, action_history, game_state, moverLog,
                   shutdownLog>>
    /\ BotFrame

\* the entry with the frame left in
ActionLogWithFrame(a, gs, now) == [timestamp |-> now, action |-> a, game_state |-> gs]

\* lines 234-238: action_log
ActionLog(a, gs, now) ==
    [timestamp |-> now, action |-> a,
     game_state |-> [k \in DOMAIN gs \ {"frame"} |-> gs[k]]]

\* _execute_action, lines 231-241: the entry is appended before the action runs
Record ==
    /\ pc = "record"
    /\ action_history' = Append(action_history,
                                ActionLog(TheVal(action), TheVal(game_state), botClock))
    /\ pc' = "call_mover"
    /\ UNCHANGED <<components, loop_counter, error_count, botClock, game_state,
                   action, iter, moverLog, shutdownLog>>
    /\ BotFrame

\* line 244: mover.execute(action) is entered
MoverBegin ==
    /\ pc = "call_mover"
    /\ moverLog' = Append(moverLog, [action |-> TheVal(action), state |-> "running"])
    /\ iter' = [iter EXCEPT !.exec = @ + 1]
    /\ pc' = "executing"
    /\ UNCHANGED <<components, loop_counter, error_count, action_history, botClock,
                   game_state, action, shutdownLog>>
    /\ BotFrame

\* an except handler that takes the entry back when the action failed
HistoryAfterExecuteRollback(out, h) ==
    IF out = "returned" THEN h ELSE SubSeq(h, 1, Len(h) - 1)

\* lines 246-255: neither the normal path nor the except handler touches
\* action_history
HistoryAfterExecute(out, h) == h

\* line 244 returns or raises; lines 246-255
MoverEnd ==
    /\ pc = "executing"
    /\ \/ /\ moverLog' = [moverLog EXCEPT ![Len(moverLog)].state = "returned"]
          /\ iter' = [iter EXCEPT !.execOut = "returned"]
          /\ action_history' = HistoryAfterExecute("returned", action_history)
          /\ pc' = "loop_tail"
          /\ UNCHANGED <<error_count, botClock>>
       \/ \E e \in Exceptions :
          /\ moverLog' = [moverLog EXCEPT ![Len(moverLog)].state = "raised"]
          /\ iter' = [iter EXCEPT !.execOut = "raised", !.escaped = Escapes(e)]
          /\ action_history' = HistoryAfterExecute("raised", action_history)
          /\ pc' = IF Escapes(e) THEN AfterLoopError ELSE "loop_tail"
          /\ error_count' = IF Escapes(e) THEN error_count + 1 ELSE error_count
          /\ botClock' = botClock + (IF Escapes(e) THEN 2 ELSE 0)
    /\ UNCHANGED <<components, loop_counter, game_state, action, shutdownLog>>
    /\ BotFrame

\* lines 129-136: the tail of one iteration, then back to line 112
LoopTail ==
    /\ pc = "loop_tail"
    /\ pc' = "loop_top"
    /\ botClock' = botClock + 1
    /\ UNCHANGED <<components, loop_counter, error_count, action_history,
                   game_state, action, iter, moverLog, shutdownLog>>
    /\ BotFrame

\* the operator's Ctrl-C: KeyboardInterrupt is raised in the main thread at
\* whatever point of the loop it has reached; no except Exception catches it
\* (it is a BaseException), so it unwinds to line 138 and then the finally
KeyboardInterrupt ==
    /\ pc \in LoopPcs
    /\ pc' = "shutdown"
    /\ moverLog' = IF pc = "executing"
                   THEN [moverLog EXCEPT ![Len(moverLog)].state = "interrupted"]
                   ELSE moverLog
    /\ shutdownLog' = [shutdownLog EXCEPT !.why = "interrupt"]
    /\ UNCHANGED <<components, loop_counter, error_count, action_history, botClock,
                   game_state, action, iter>>
    /\ BotFrame

\* _shutdown, lines 257-287: env.cleanup() (an exception of it is caught and
\* logged), then the final statistics
Shutdown ==
    /\ pc = "shutdown"
    /\ shutdownLog' = [shutdownLog EXCEPT !.cleanup = TRUE, !.stats = TRUE]
    /\ pc' = "stopped"
    /\ UNCHANGED <<components, loop_counter, error_count, action_history, botClock,
                   game_state, action, iter, moverLog>>
    /\ BotFrame

NextBot ==
    \/ Construct \/ RunStart \/ LoopTop \/ Collect \/ Plan \/ Record
    \/ MoverBegin \/ MoverEnd \/ LoopTail \/ KeyboardInterrupt \/ Shutdown

(***************************************************************************)
(* The environment facades                                                 *)
(***************************************************************************)
MaxEnvTime == 3       \* the clock runs over 1..MaxEnvTime
MaxEnvCalls == 3      \* cap on the number of get_game_state calls
FramePeriod == 1      \* 1 / self.frame_rate, the clock's unit

Variants == {"root", "environment", "envs", "envs_TEST"}

\* str(e) of the exceptions the capture backends and cv2 raise
Messages == {"screen grab failed", "window not active"}

\* what one read of the capture backend does
BackendReads == {"frame", "black", "nothing", "raise"}

\* what _init_camera meets: dxcam.create raising, camera.start raising, neither
CameraStarts == {"ok", "create_fails", "start_fails"}

NoRet == [raised |-> FALSE, rec |-> [called |-> FALSE]]

EnvInit ==
    /\ envVariant = "none"
    /\ camera = "none"
    /\ capture_region = None
    /\ last_frame_time = 0
    /\ envNow = 1
    /\ envRet = NoRet
    /\ envLog = [calls |-> 0, reads |-> 0, allRaised |-> TRUE, restarts |-> <<>>]
    /\ envInit = [called |-> FALSE]
    /\ envCapture = [called |-> FALSE]

\* what _cleanup_camera meets: camera.stop raising, camera.release raising, neither
CameraStops == {"ok", "stop_fails", "release_fails"}

\* the steps of _initialize, lines 41-44, in their order
InitSteps == <<"dpi", "window", "region", "camera">>

\* envs/wow_environment.py _init_camera, lines 103-128, for a capture region
\* and the camera held before: the camera afterwards and whether RuntimeError
\* is raised (line 116 assigns self.camera before line 123 starts it)
InitCamera(region, before, start) ==
    IF region = None THEN [camera |-> before, raised |-> TRUE]
    ELSE IF start = "create_fails" THEN [camera |-> before, raised |-> TRUE]
    ELSE IF start = "start_fails" THEN [camera |-> "created", raised |-> TRUE]
    ELSE [camera |-> "started", raised |-> FALSE]

\* envs/wow_environment.py _cleanup_camera, lines 170-179: stop and release
\* share one try, so release is not reached when stop raises; the finally
\* clause drops the reference in every case; nothing is raised
CleanupCamera(before, stop) ==
    [camera |-> "none",
     stop_called |-> before # "none",
     stopped |-> before # "none" /\ stop # "stop_fails",
     release_called |-> before # "none" /\ stop # "stop_fails",
     released |-> before # "none" /\ stop = "ok"]

\* a handler that lets the exception of _init_camera through
RestartPassesOnAll(raised) == raised

\* the exception handler of _restart_camera, line 167: is the exception raised
\* by _init_camera passed on to the caller
RestartPassesOn(raised) == FALSE

\* envs/wow_environment.py _restart_camera, lines 160-168
RestartCamera(start, stop) ==
    LET cl == CleanupCamera(camera, stop)
        ini == InitCamera(capture_region, cl.camera, start)
    IN  [camera |-> ini.camera, ok |-> ~ini.raised, cleanup |-> cl,
         raised |-> RestartPassesOn(ini.raised)]

\* envs/wow_environment.py _initialize, lines 39-44, where failing is the
\* first step that raises: the steps attempted, the camera and the region
\* when _initialize returns or raises
Initialize(failing, start) ==
    LET n == IF failing = "none" THEN Len(InitSteps)
             ELSE CHOOSE i \in 1..Len(InitSteps) : InitSteps[i] = failing
        region == IF n >= 3 /\ failing # "region" THEN Some("region") ELSE None
        ini == IF n = 4 THEN InitCamera(region, "none", start)
               ELSE [camera |-> "none", raised |-> TRUE]
    IN  [steps |-> SubSeq(InitSteps, 1, n), region |-> region,
         camera |-> ini.camera, raised |-> ini.raised]

\* the constructors.  root: lines 13-16 (a window that cannot be found falls
\* back to a fixed region); environment: lines 11-12; envs_TEST: lines 10-13;
\* envs: lines 25-44, where failing is the first step of _initialize that
\* raises and line 36 then runs _cleanup and raises RuntimeError
EnvConstruct ==
    /\ envVariant = "none"
    /\ \E v \in Variants, failing \in {"none", "dpi", "window", "region", "camera"},
          start \in CameraStarts, stop \in CameraStops :
        /\ v # "envs" => failing = "none" /\ start = "ok"
        /\ (failing = "camera") = (start # "ok")
        \* the cleanup reads the outcome of stop only when a camera exists
        /\ start # "start_fails" => stop = "ok"
        /\ IF v = "envs"
           THEN LET i == Initialize(failing, start)
                    cl == CleanupCamera(i.camera, stop)
                IN  /\ envVariant' = IF i.raised THEN "failed" ELSE v
                    /\ capture_region' = i.region
                    /\ camera' = IF i.raised THEN cl.camera ELSE i.camera
                    /\ envInit' = [called |-> TRUE, steps |-> i.steps,
                                   failing |-> failing, raised |-> i.raised,
                                   created |-> i.camera # "none",
                                   cleanup |-> IF i.raised THEN Some(cl) ELSE None]
           ELSE /\ envVariant' = v
                /\ capture_region' = None
                /\ camera' = "none"
                /\ UNCHANGED envInit
    /\ UNCHANGED <<last_frame_time, envNow, envRet, envLog, envCapture>>
    /\ EnvFrame

\* src/wow_environment.py, lines 40-72.  _capture_frame swallows a backend
\* exception and a black screen into None; an exception of _find_objects is
\* caught by line 54
GetGameStateRoot(read, find, msg) ==
    IF read \in {"raise", "black", "nothing"}
    THEN [raised |-> FALSE,
          rec |-> [status |-> "error", reason |-> "capture returned no frame"]]
    ELSE IF find = "raise"
    THEN [raised |-> FALSE, rec |-> [status |-> "error", reason |-> msg]]
    ELSE [raised |-> FALSE,
          rec |-> [status |-> "success", frame |-> "frame",
                   enemies |-> IF find = "enemy" THEN <<<<100, 100>>>> ELSE <<>>,
                   npcs |-> <<>>, position |-> <<960, 540>>]]

\* src/environment/wow_environment.py, lines 38-55: _get_screenshot raises
\* whatever the backend raised (or ValueError for an inactive window)
GetGameStateEnvironment(read, health, msg) ==
    IF read = "raise"
    THEN [raised |-> FALSE, rec |-> [status |-> "error", reason |-> msg]]
    ELSE [raised |-> FALSE,
          rec |-> [status |-> "success", position |-> <<5, 5>>, health |-> health,
                   enemies |-> <<>>, npcs |-> <<>>]]

\* src/envs/wow_environment_TEST.py, lines 42-60: capture_screen turns a
\* backend exception into a black frame
GetGameStateTest(read, find) ==
    [raised |-> FALSE,
     rec |-> [npcs |-> <<>>,
              enemies |-> IF find = "enemy" /\ read = "frame"
                          THEN <<<<100, 100>>>> ELSE <<>>,
              frame |-> IF read = "frame" THEN "frame" ELSE "black frame"]]

\* src/envs/wow_environment.py capture_frame with _restart_camera and
\* _cleanup_camera, lines 141-179: the frame (None or <<frame>>), whether the
\* backend was read, the restart made ("no", "ok", "failed"), whether the call
\* raises, and the camera and last_frame_time afterwards.  A camera that is
\* None or was never started gives no frame: reading it raises
CaptureFrame(read, start, stop) ==
    IF envNow - last_frame_time < FramePeriod
    THEN [frame |-> None, read |-> "skipped", restart |-> "no", raised |-> FALSE,
          camera |-> camera, last |-> last_frame_time]
    ELSE IF camera # "started" \/ read = "raise"
    THEN \* get_latest_frame raised (or self.camera is None): _restart_camera
         LET r == RestartCamera(start, stop) IN
         [frame |-> None, read |-> "raise",
          restart |-> IF r.ok THEN "ok" ELSE "failed", raised |-> r.raised,
          camera |-> r.camera, last |-> last_frame_time]
    ELSE IF read = "nothing"
    THEN [frame |-> None, read |-> read, restart |-> "no", raised |-> FALSE,
          camera |-> camera, last |-> last_frame_time]
    ELSE [frame |-> Some("frame"), read |-> read, restart |-> "no", raised |-> FALSE,
          camera |-> camera, last |-> envNow]

\* src/envs/wow_environment.py get_game_state, lines 130-139, given the
\* outcome of capture_frame at line 132
GetGameStateEnvs(frame, raised) ==
    IF raised THEN [raised |-> TRUE, rec |-> [called |-> FALSE]] ELSE
    [raised |-> FALSE,
     rec |-> [resolution |-> "1920x960",
              frame_shape |-> IF frame = None THEN "None" ELSE "shape",
              timestamp |-> envNow,
              status |-> IF frame # None THEN "active" ELSE "error"]]

\* one get_game_state() call on the constructed facade
GetGameState ==
    /\ envVariant \in Variants
    /\ envLog.calls < MaxEnvCalls
    /\ \E read \in BackendReads, find \in {"none", "enemy", "raise"}, msg \in Messages,
          health \in {0, 40, 100}, start \in CameraStarts, stop \in CameraStops :
        \* inputs a variant does not read are fixed
        /\ envVariant # "environment" => health = 40
        /\ envVariant \in {"environment", "envs"} => find = "none"
        /\ envVariant = "environment" => read \in {"frame", "raise"}
        /\ envVariant \in {"envs", "envs_TEST"} => msg = "screen grab failed"
        \* the restart happens after a failed read of the envs camera, and its
        \* cleanup reads the outcome of stop only when a camera exists
        /\ ~(envVariant = "envs" /\ CaptureFrame(read, "ok", "ok").restart # "no")
              => start = "ok" /\ stop = "ok"
        /\ (envVariant = "envs" /\ camera = "none") => stop = "ok"
        /\ (envVariant # "environment" /\ ~(envVariant = "root" /\ find = "raise"))
              => msg = "screen grab failed"
        /\ IF envVariant = "envs"
           THEN LET c == CaptureFrame(read, start, stop) IN
                /\ envRet' = GetGameStateEnvs(c.frame, c.raised)
                /\ camera' = c.camera
                /\ last_frame_time' = c.last
                /\ envLog' = [calls |-> envLog.calls + 1,
                              reads |-> envLog.reads + (IF c.read = "skipped" THEN 0 ELSE 1),
                              allRaised |-> envLog.allRaised
                                            /\ c.read \in {"skipped", "raise"},
                              restarts |-> IF c.restart = "no" THEN envLog.restarts
                                           ELSE Append(envLog.restarts, c.restart)]
                /\ envCapture' = [called |-> TRUE, before |-> camera,
                                  frame |-> c.frame, read |-> c.read,
                                  restart |-> c.restart, raised |-> c.raised]
           ELSE /\ envRet' = CASE envVariant = "root" ->
                                      GetGameStateRoot(read, find, msg)
                                [] envVariant = "environment" ->
                                      GetGameStateEnvironment(read, health, msg)
                                [] OTHER -> GetGameStateTest(read, find)
                /\ envLog' = [envLog EXCEPT !.calls = @ + 1, !.reads = @ + 1,
                                           !.allRaised = @ /\ read = "raise"]
                /\ UNCHANGED <<camera, last_frame_time, envCapture>>
    /\ UNCHANGED <<envVariant, capture_region, envNow, envInit>>
    /\ EnvFrame

\* time passes between calls
EnvTick ==
    /\ envVariant \in Variants
    /\ envNow < MaxEnvTime
    /\ envNow' = envNow + 1
    /\ UNCHANGED <<envVariant, camera, capture_region, last_frame_time, envRet, envLog,
                   envInit, envCapture>>
    /\ EnvFrame

NextEnv == EnvConstruct \/ GetGameState \/ EnvTick

(***************************************************************************)
(* ActionPlanner and LLMAdapter                                            *)
(***************************************************************************)
MaxPlans == 2         \* cap on the number of plan_action calls

\* the game-state summaries _get_user_message renders into the prompt
Summaries == {"enemy near", "nothing near"}

\* the values an LLM puts into the "action" field
ActionValues == {"attack", "move", "interact", "loot", "explore",
                 "gather_resources", "revive", "fly"}

Target == [type |-> "enemy", position |-> <<10, 20>>]

\* the JSON objects an LLM answers with
JsonObjects ==
    {[action |-> a, target |-> Target, reason |-> "x"] : a \in ActionValues}
    \cup { [action |-> "attack", reason |-> "x"],
           [target |-> Target, reason |-> "x"],
           [status |-> "success", action |-> "move", target |-> Target,
            reason |-> "x"] }

\* the bodies of an answer: text that is no JSON, JSON that is no object
\* (null or a number; a list or a string), or a JSON object
JsonBodies ==
    { [kind |-> k, obj |-> [none |-> TRUE]] : k \in {"garbage", "scalar", "list"} }
    \cup { [kind |-> "object", obj |-> o] : o \in JsonObjects }

\* the message text: the body bare, inside a ```json fence, or inside a plain
\* ``` fence
Texts == [fence : {"none", "json", "plain"}, body : JsonBodies]

\* the provider's answers: the completion envelope with a text, or an envelope
\* without result.alternatives[0].message.text
LLMResponses ==
    { [envelope |-> "ok", text |-> t] : t \in Texts }
    \cup { [envelope |-> "malformed",
            text |-> [fence |-> "none",
                      body |-> [kind |-> "garbage", obj |-> [none |-> TRUE]]]] }

NoPlan == [called |-> FALSE]

PlannerInit ==
    /\ last_action = None
    /\ planner_history = <<>>
    /\ llm_cache = {}
    /\ providerCalls = 0
    /\ planRet = NoPlan

\* _generate_prompt, lines 75-108: the prompt is made of the state summary
\* and of last_action; json.dumps(input, sort_keys=True) is its cache key
CacheKey(summary) == [user_message |-> summary, last |-> last_action]

\* _parse_response, lines 110-119: the parsed value, or raised.  A missing
\* envelope field raises inside the try and again in the except (content is
\* unbound there); text that json.loads rejects raises ValueError.  A plain
\* ``` fence is not stripped, so json.loads rejects it.
ParseResponse(resp) ==
    IF resp.envelope # "ok" THEN [raised |-> TRUE, value |-> resp.text.body]
    ELSE IF resp.text.fence = "plain" \/ resp.text.body.kind = "garbage"
    THEN [raised |-> TRUE, value |-> resp.text.body]
    ELSE [raised |-> FALSE, value |-> resp.text.body]

\* line 128: the list of accepted action values
AcceptedActions == {"attack", "move", "interact", "loot"}

\* _validate_action, lines 121-129: TRUE when it returns, FALSE when it raises
\* (ValueError for a missing key or an action outside the list, TypeError for
\* `key in action` on null or a number)
ValidateAction(value) ==
    /\ value.kind = "object"
    /\ {"action", "target", "reason"} \subseteq DOMAIN value.obj
    /\ value.obj.action \in AcceptedActions

\* lines 58-62: the record plan_action returns from its except
PlanError(msg) == [status |-> "error", action |-> "None", reason |-> msg]

\* a lookup that never finds an entry
CacheLookupNever(cache, key) == {}

\* LLMAdapter.invoke, lines 151-153: the cached entries under cache_key
CacheLookup(cache, key) == {c \in cache : c[1] = key}

\* plan_action(), one call, with LLMAdapter.invoke (lines 149-160) inside:
\* summary is the game state, promptFails says that building the context or
\* the prompt raises, answer is what the provider does when it is called
PlanActionCall ==
    /\ planRet.called => planRet.n < MaxPlans
    /\ \E summary \in Summaries, promptFails \in BOOLEAN,
          answer \in LLMResponses \cup {[envelope |-> "raise"]} :
        LET n == IF planRet.called THEN planRet.n + 1 ELSE 1
            key == CacheKey(summary)
            found == CacheLookup(llm_cache, key)
            hit == found # {}
            resp == IF hit THEN (CHOOSE c \in found : TRUE)[2] ELSE answer
            called == ~promptFails /\ ~hit
            gotResp == ~promptFails /\ resp.envelope # "raise"
            parsed == ParseResponse(resp)
            ok == gotResp /\ ~parsed.raised /\ ValidateAction(parsed.value)
        IN  /\ providerCalls' = providerCalls + (IF called THEN 1 ELSE 0)
            /\ llm_cache' = IF called /\ answer.envelope # "raise"
                            THEN llm_cache \cup {<<key, answer>>} ELSE llm_cache
            /\ last_action' = IF ok THEN Some(parsed.value.obj) ELSE last_action
            /\ planner_history' =
                  IF ok THEN Append(planner_history,
                                    [timestamp |-> n, action |-> parsed.value.obj])
                  ELSE planner_history
            /\ planRet' = [called |-> TRUE, n |-> n, raised |-> FALSE,
                           promptFails |-> promptFails, hit |-> hit, key |-> key,
                           resp |-> IF gotResp THEN resp ELSE [envelope |-> "raise"],
                           hist |-> Len(planner_history),
                           rec |-> IF ok THEN parsed.value.obj
                                   ELSE PlanError("planning error")]
    /\ PlannerFrame

NextPlanner == PlanActionCall

(***************************************************************************)
(* generate_plan (src/planner.py)                                          *)
(***************************************************************************)
MaxList == 2          \* cap on the length of the enemies and npcs lists

\* the sequences over S of length at most n
BoundedSeq(S, n) == UNION {[1..k -> S] : k \in 0..n}

\* values of state['health']: None, a bool, an int
Healths == {[py |-> "none", v |-> 0], [py |-> "bool", v |-> 0],
            [py |-> "bool", v |-> 1], [py |-> "int", v |-> 0],
            [py |-> "int", v |-> 40], [py |-> "int", v |-> 100]}

\* Python truthiness of a health value, and of a list
Truthy(h) == h.py # "none" /\ h.v # 0
TruthyList(l) == Len(l) > 0

EnemyNames == {"wolf", "boar"}
NpcNames == {"vendor", "guard"}

PlanStates == [health : Healths, enemies : BoundedSeq(EnemyNames, MaxList),
               npcs : BoundedSeq(NpcNames, MaxList)]

GenInit ==
    /\ gen_state = None
    /\ gen_plan = <<>>

\* a plan that looks at the enemies before it looks at the health
GeneratePlanEnemiesFirst(state, choice) ==
    IF TruthyList(state.enemies)
    THEN << [type |-> "move_to", target |-> state.enemies[choice]],
            [type |-> "attack", target |-> state.enemies[choice]] >>
    ELSE IF ~Truthy(state.health) THEN << [type |-> "revive"] >>
    ELSE IF TruthyList(state.npcs)
    THEN << [type |-> "move_to", target |-> state.npcs[1]] >>
    ELSE << [type |-> "explore"] >>

\* generate_plan, lines 5-24; choice is the index random.choice picks
GeneratePlan(state, choice) ==
    IF ~Truthy(state.health) THEN << [type |-> "revive"] >>
    ELSE IF TruthyList(state.enemies)
    THEN << [type |-> "move_to", target |-> state.enemies[choice]],
            [type |-> "attack", target |-> state.enemies[choice]] >>
    ELSE IF TruthyList(state.npcs)
    THEN << [type |-> "move_to", target |-> state.npcs[1]] >>
    ELSE << [type |-> "explore"] >>

\* one call of generate_plan(state)
GeneratePlanCall ==
    /\ \E state \in PlanStates :
          \E choice \in (IF state.enemies = <<>> THEN {1}
                         ELSE 1..Len(state.enemies)) :
             /\ gen_state' = Some(state)
             /\ gen_plan' = GeneratePlan(state, choice)
    /\ GenFrame

NextGen == GeneratePlanCall

(***************************************************************************)
(* The AST code validators                                                 *)
(***************************************************************************)
MaxCalls == 2         \* cap on the number of call expressions in a snippet

Validators == {"safety_checker", "code_utils", "code_validator"}

\* the allow-list of each validator (safety_checker.py lines 10-12,
\* code_utils.py line 10, code_validator.py line 9)
AllowedFunctions(variant) ==
    IF variant = "code_validator" THEN {"move", "click", "cast", "interact"}
    ELSE {"move_to", "click", "cast_spell", "loot"}

\* node.func of an ast.Call: a Name, an Attribute (obj.attr), a Subscript
\* (handlers[0]) or another expression such as a call or a lambda
CallTargets ==
    { [kind |-> "name", id |-> n] :
        n \in {"move_to", "click", "cast_spell", "loot", "move", "cast",
               "interact", "eval"} }
    \cup { [kind |-> "attribute", id |-> n] : n \in {"click", "remove"} }
    \cup { [kind |-> k, id |-> ""] : k \in {"subscript", "other"} }

\* an ast.Call node: its target, and whether it sits at the top of a
\* statement or nested inside another expression
CallNodes == [func : CallTargets, nested : BOOLEAN]

\* a snippet: its text is empty, only whitespace, or code; code parses or is
\* a syntax error; calls are the ast.Call nodes of the tree ast.parse builds
Snippets ==
    { [text |-> t, parses |-> TRUE, calls |-> <<>>] : t \in {"empty", "spaces"} }
    \cup { [text |-> "code", parses |-> FALSE, calls |-> <<>>] }
    \cup { [text |-> "code", parses |-> TRUE, calls |-> c] :
             c \in BoundedSeq(CallNodes, MaxCalls) }

ValInit ==
    /\ val_variant = "none"
    /\ val_snippet = [text |-> "empty", parses |-> TRUE, calls |-> <<>>]
    /\ val_result = "none"

\* SafeCodeExecutor.get_func_name, lines 37-42
GetFuncName(func) ==
    IF func.kind \in {"name", "attribute"} THEN func.id ELSE ""

\* SafeCodeExecutor.validate_code, lines 14-26, with check_node, lines 28-35,
\* which visits every node of the tree: the code, or ""
SafetyCheckerValidate(snippet) ==
    IF snippet.text # "code" THEN "empty_string"
    ELSE IF ~snippet.parses THEN "empty_string"
    ELSE IF \E i \in 1..Len(snippet.calls) :
               GetFuncName(snippet.calls[i].func)
                  \notin AllowedFunctions("safety_checker")
    THEN "empty_string"
    ELSE "the_code"

\* code_utils.validate_code, lines 8-23, over ast.walk: the code, or ""
CodeUtilsValidate(snippet) ==
    IF ~snippet.parses THEN "empty_string"
    ELSE IF \E i \in 1..Len(snippet.calls) :
               /\ snippet.calls[i].func.kind = "name"
               /\ snippet.calls[i].func.id \notin AllowedFunctions("code_utils")
    THEN "empty_string"
    ELSE "the_code"

\* CodeValidator._is_allowed_function, lines 39-43
IsAllowedFunction(node) ==
    IF node.func.kind = "name"
    THEN node.func.id \in AllowedFunctions("code_validator")
    ELSE FALSE

\* CodeValidator._validate_syntax, lines 27-37, over ast.walk: True or False
ValidateSyntax(snippet) ==
    IF ~snippet.parses THEN "False"
    ELSE IF \E i \in 1..Len(snippet.calls) : ~IsAllowedFunction(snippet.calls[i])
    THEN "False"
    ELSE "True"

\* did the validator accept: it returned True, or the code it was given
Accepted(snippet, result) ==
    \/ result \in {"True", "the_code"}
    \/ result = "empty_string" /\ snippet.text = "empty"

\* one call of a validator on a snippet
ValidateCall ==
    /\ \E variant \in Validators, snippet \in Snippets :
          /\ val_variant' = variant
          /\ val_snippet' = snippet
          /\ val_result' =
                CASE variant = "safety_checker" -> SafetyCheckerValidate(snippet)
                  [] variant = "code_utils" -> CodeUtilsValidate(snippet)
                  [] variant = "code_validator" -> ValidateSyntax(snippet)
    /\ ValFrame

NextVal == ValidateCall

(***************************************************************************)
(* CodeGenerator, DecisionEngine and ActionExecutor                        *)
(***************************************************************************)
MaxRetries == 2       \* largest max_retries a CodeGenerator is built with
MaxGenCalls == 2      \* cap on the number of generate_action_code calls
MaxExecs == 1         \* cap on the number of execute_code calls

\* the code an LLM writes: its syntax tree, whether its text contains one of
\* the substrings os.system, subprocess, eval, exec, and whether it contains
\* all of pyautogui, cv2, numpy
CodeSnippets ==
    {s \in Snippets :
        /\ Len(s.calls) <= 1 /\ s.text # "spaces"
        /\ \A i \in 1..Len(s.calls) :
              /\ ~s.calls[i].nested
              /\ s.calls[i].func \in {[kind |-> "name", id |-> "click"],
                                      [kind |-> "name", id |-> "eval"],
                                      [kind |-> "attribute", id |-> "click"],
                                      [kind |-> "attribute", id |-> "remove"]}}
Codes ==
    {c \in [snippet : CodeSnippets, deny : BOOLEAN, imports : BOOLEAN] :
        /\ c.snippet.text = "empty" => ~c.deny /\ ~c.imports
        /\ (\E i \in 1..Len(c.snippet.calls) :
               c.snippet.calls[i].func.id = "eval") => c.deny}

EmptyCode == [snippet |-> [text |-> "empty", parses |-> TRUE, calls |-> <<>>],
              deny |-> FALSE, imports |-> FALSE]

\* what llm_client.generate / chain.invoke does: it raises, it returns
\* something that is no string, or it returns text with the code in a
\* ```python fence or bare
LLMAnswers ==
    { [kind |-> k, fence |-> FALSE, code |-> EmptyCode] : k \in {"raise", "not_str"} }
    \cup [kind : {"text"}, fence : BOOLEAN, code : Codes]

NoGenCall == [n |-> 0, fb0 |-> 0, llm_calls |-> 0, done |-> FALSE,
              ret |-> "None"]

CodeGenInit ==
    /\ max_retries = None
    /\ error_feedback = <<>>
    /\ cg_pc = "idle"
    /\ cg_attempt = 0
    /\ cg_call = NoGenCall
    /\ handed = None
    /\ exec_log = [n |-> 0, last |-> None, ran |-> FALSE, ret |-> FALSE]

\* CodeGenerator.__init__, lines 14-17
CodeGenConstruct ==
    /\ max_retries = None
    /\ \E m \in 0..MaxRetries : max_retries' = Some(m)
    /\ error_feedback' = <<>>
    /\ UNCHANGED <<cg_pc, cg_attempt, cg_call, handed, exec_log>>
    /\ CodeGenFrame

\* _validate_code, lines 74-87: TRUE when it returns True, FALSE when it
\* raises ValueError
ValidateCode(code) == ~code.deny /\ code.imports

\* a loop that makes one attempt too many
MoreAttemptsInclusive(attempt, max) == attempt <= max

\* line 30: for attempt in range(self.max_retries)
MoreAttempts(attempt, max) == attempt < max

\* generate_action_code is called, lines 19-30
GenerateBegin ==
    /\ max_retries # None /\ cg_pc = "idle" /\ cg_call.n < MaxGenCalls
    /\ cg_pc' = "loop"
    /\ cg_attempt' = 0
    /\ cg_call' = [n |-> cg_call.n + 1, fb0 |-> Len(error_feedback),
                   llm_calls |-> 0, done |-> FALSE, ret |-> "None"]
    /\ UNCHANGED <<max_retries, error_feedback, handed, exec_log>>
    /\ CodeGenFrame

\* one pass of the loop body, lines 31-41: promptFails says json.dumps of the
\* context raises in _build_prompt; the message appended on a failure is
\* "Попытка {attempt + 1}: ...", kept here as its attempt number; the code
\* returned is kept in handed
GenerateAttempt ==
    /\ cg_pc = "loop" /\ MoreAttempts(cg_attempt, TheVal(max_retries))
    /\ \E promptFails \in BOOLEAN, answer \in LLMAnswers :
          LET called == ~promptFails
              ok == called /\ answer.kind = "text" /\ ValidateCode(answer.code)
              msg == cg_attempt + 1
          IN  /\ cg_call' = [cg_call EXCEPT
                    !.llm_calls = @ + (IF called THEN 1 ELSE 0),
                    !.done = ok,
                    !.ret = IF ok THEN "code" ELSE "None"]
              /\ IF ok
                 THEN /\ cg_pc' = "idle"
                      /\ handed' = Some([from |-> "code_generator",
                                         code |-> answer.code])
                      /\ UNCHANGED <<error_feedback, cg_attempt>>
                 ELSE /\ error_feedback' = Append(error_feedback, msg)
                      /\ cg_attempt' = cg_attempt + 1
                      /\ UNCHANGED <<cg_pc, handed>>
    /\ UNCHANGED <<max_retries, exec_log>>
    /\ CodeGenFrame

\* the loop is exhausted, line 43: return None
GenerateGiveUp ==
    /\ cg_pc = "loop" /\ ~MoreAttempts(cg_attempt, TheVal(max_retries))
    /\ cg_pc' = "idle"
    /\ cg_call' = [cg_call EXCEPT !.done = TRUE, !.ret = "None"]
    /\ UNCHANGED <<max_retries, error_feedback, cg_attempt, handed, exec_log>>
    /\ CodeGenFrame

\* DecisionEngine.generate_action, lines 43-47: the extracted code goes
\* through SafeCodeExecutor.validate_code, which returns it or ""; a raising
\* chain.invoke raises out of generate_action
DecisionGenerateAction ==
    /\ \E answer \in LLMAnswers :
          /\ answer.kind = "text"
          /\ handed' = Some([from |-> "decision_engine",
                             code |-> IF SafetyCheckerValidate(answer.code.snippet)
                                         = "the_code"
                                      THEN answer.code ELSE EmptyCode])
    /\ UNCHANGED <<max_retries, error_feedback, cg_pc, cg_attempt, cg_call,
                   exec_log>>
    /\ CodeGenFrame

\* ActionExecutor.execute_code, lines 14-29, called with the code a generator
\* returned: exec compiles the code (a syntax error raises before anything
\* runs) and runs it; raised says the running code raises
ExecuteCode ==
    /\ handed # None /\ exec_log.n < MaxExecs
    /\ \E raised \in BOOLEAN :
          LET code == TheVal(handed).code
          IN  exec_log' = [n |-> exec_log.n + 1, last |-> Some(code),
                           ran |-> code.snippet.parses,
                           ret |-> code.snippet.parses /\ ~raised]
    /\ UNCHANGED <<max_retries, error_feedback, cg_pc, cg_attempt, cg_call,
                   handed>>
    /\ CodeGenFrame

\* the code generator alone
NextCodeGen ==
    \/ CodeGenConstruct
    \/ GenerateBegin
    \/ GenerateAttempt
    \/ GenerateGiveUp

\* the two generators and the executor their code is given to
NextExec ==
    \/ CodeGenConstruct
    \/ GenerateBegin
    \/ GenerateAttempt
    \/ GenerateGiveUp
    \/ DecisionGenerateAction
    \/ ExecuteCode

(***************************************************************************)
(* SkillLibrary                                                            *)
(***************************************************************************)
MaxSkills == 2        \* cap on the number of add_skill calls
MaxTaskLen == 2       \* cap on the number of words in a task to look up

\* line 33: skill_desc.split()[:3]
KeywordCount == 3

\* words are strings without whitespace, kept as their characters; a
\* description or a task is the sequence of its whitespace-delimited words
Words == { <<"a">>, <<"a", "b">> }
Descriptions == BoundedSeq(Words, KeywordCount + 1)
Tasks == BoundedSeq(Words, MaxTaskLen)

SkillInit ==
    /\ skills = <<>>
    /\ skills_file = <<>>
    /\ skill_adds = 0
    /\ skill_find = [called |-> FALSE]

\* Python's `a in b` on strings: a occurs in b as a substring
IsSubstring(a, b) ==
    \E i \in 0..(Len(b) - Len(a)) : SubSeq(b, i + 1, i + Len(a)) = a

\* `keyword in task_description`: a keyword holds no whitespace, so it occurs
\* in the task exactly when it occurs inside one of the task's words
InText(keyword, task) == \E j \in 1..Len(task) : IsSubstring(keyword, task[j])

\* every word of the description is a keyword
KeywordsAll(desc) == desc

\* line 33: skill_desc.split()[:3]
Keywords(desc) ==
    SubSeq(desc, 1, IF Len(desc) < KeywordCount THEN Len(desc) ELSE KeywordCount)

\* line 33: all(keyword in task_description for keyword in ...)
Matches(desc, task) ==
    \A k \in 1..Len(Keywords(desc)) : InText(Keywords(desc)[k], task)

\* self.skills[task_description] = code, line 26: a dict keeps the place of a
\* key that is already there and replaces its value
DictSet(d, desc, code) ==
    IF \E i \in 1..Len(d) : d[i].desc = desc
    THEN [i \in 1..Len(d) |->
             IF d[i].desc = desc THEN [desc |-> desc, code |-> code] ELSE d[i]]
    ELSE Append(d, [desc |-> desc, code |-> code])

\* find_skill, lines 29-35: the scan over self.skills.items() from entry i on
RECURSIVE FindFrom(_, _, _)
FindFrom(d, task, i) ==
    IF i > Len(d) THEN None
    ELSE IF Matches(d[i].desc, task) THEN Some(d[i].code)
    ELSE FindFrom(d, task, i + 1)

FindSkill(d, task) == FindFrom(d, task, 1)

\* add_skill(task_description, code), lines 24-27, with save_skills; the
\* code of the n-th call is named n
AddSkill ==
    /\ skill_adds < MaxSkills
    /\ \E desc \in Descriptions :
          /\ skills' = DictSet(skills, desc, skill_adds + 1)
          /\ skills_file' = skills'
    /\ skill_adds' = skill_adds + 1
    /\ skill_find' = [called |-> FALSE]
    /\ SkillFrame

\* find_skill(task_description), lines 29-35
FindSkillCall ==
    /\ \E task \in Tasks :
          skill_find' = [called |-> TRUE, task |-> task,
                         ret |-> FindSkill(skills, task)]
    /\ UNCHANGED <<skills, skills_file, skill_adds>>
    /\ SkillFrame

NextSkill == AddSkill \/ FindSkillCall

(***************************************************************************)
(* YandexVisionProcessor._send_request                                     *)
(***************************************************************************)
\* line 26: max_retries: int = 3
MaxVisionRetries == 4     \* max_retries is drawn from 0..MaxVisionRetries
VisionMaxRetries == 3     \* line 26: max_retries: int = 3

\* what one requests.post does: a response with a status code (its body is
\* JSON, or for "200_badjson" it is not), or a connection error or a timeout
\* raised by requests
PostOutcomes == {"200", "200_badjson", "400", "401", "403", "429", "500",
                 "connection", "timeout"}

HttpErrors == {"400", "401", "403", "429", "500"}

VisionInit ==
    /\ vis_max_retries = None
    /\ vis_pc = "new"
    /\ vis_attempt = 0
    /\ vis_sent = <<>>
    /\ vis_slept = <<>>
    /\ vis_ret = "none"

\* 2 ** attempt
RECURSIVE Pow2(_)
Pow2(n) == IF n = 0 THEN 1 ELSE 2 * Pow2(n - 1)

\* line 219, except requests.exceptions.RequestException: raise_for_status
\* raises HTTPError for every status from 400 on, and HTTPError,
\* ConnectionError and Timeout are all RequestExceptions; the error of
\* response.json() is one in some versions of requests and a plain ValueError
\* in others
IsCaught(outcome, jsonErrIsRequestException) ==
    \/ outcome \in HttpErrors \cup {"connection", "timeout"}
    \/ outcome = "200_badjson" /\ jsonErrIsRequestException

\* the constructor, lines 23-55
VisionConstruct ==
    /\ vis_pc = "new"
    /\ \E n \in (0..MaxVisionRetries) \cup {VisionMaxRetries} :
          vis_max_retries' = Some(n)
    /\ vis_pc' = "idle"
    /\ UNCHANGED <<vis_attempt, vis_sent, vis_slept, vis_ret>>
    /\ VisionFrame

\* _send_request is called, lines 176-195; over an empty range the loop body
\* never runs and the function falls off its end, returning None
SendRequestBegin ==
    /\ vis_pc = "idle"
    /\ vis_pc' = IF TheVal(vis_max_retries) > 0 THEN "loop" ELSE "idle"
    /\ vis_attempt' = 0
    /\ vis_sent' = <<>>
    /\ vis_slept' = <<>>
    /\ vis_ret' = IF TheVal(vis_max_retries) > 0 THEN "none" ELSE "None"
    /\ UNCHANGED vis_max_retries
    /\ VisionFrame

\* line 221: is a wait and another attempt due after a caught failure
RetryDue(attempt, max) == attempt < max - 1

\* a wait that grows by one second per attempt
WaitTimeLinear(attempt) == attempt + 1

\* line 222: wait_time = 2 ** attempt
WaitTime(attempt) == Pow2(attempt)

\* one pass of the loop, lines 195-227, the except clause included
SendRequestAttempt ==
    /\ vis_pc = "loop" /\ vis_attempt < TheVal(vis_max_retries)
    /\ \E outcome \in PostOutcomes, jsonErrIsRequestException \in BOOLEAN :
          /\ vis_sent' = Append(vis_sent, outcome)
          /\ IF outcome = "200"
             THEN /\ vis_ret' = "json" /\ vis_pc' = "idle"
                  /\ UNCHANGED <<vis_attempt, vis_slept>>
             ELSE IF ~IsCaught(outcome, jsonErrIsRequestException)
             THEN /\ vis_ret' = "raised" /\ vis_pc' = "idle"
                  /\ UNCHANGED <<vis_attempt, vis_slept>>
             ELSE IF RetryDue(vis_attempt, TheVal(vis_max_retries))
             THEN /\ vis_slept' = Append(vis_slept, WaitTime(vis_attempt))
                  /\ vis_attempt' = vis_attempt + 1
                  /\ UNCHANGED <<vis_pc, vis_ret>>
             ELSE /\ vis_ret' = "None" /\ vis_pc' = "idle"
                  /\ UNCHANGED <<vis_attempt, vis_slept>>
    /\ UNCHANGED vis_max_retries
    /\ VisionFrame

NextVision == VisionConstruct \/ SendRequestBegin \/ SendRequestAttempt

(***************************************************************************)
(* MovementController.execute                                              *)
(***************************************************************************)
Controllers == {"agents", "controllers"}

\* values of the "action" field; "None" stands for a missing field
ActionTypes == {"move", "attack", "interact", "explore", "gather_resources",
                "revive", "loot", "fly", "None"}

\* the record given to execute: its action type, whether it has a target with
\* a position, a target without one or no target, whether the type of its
\* target is "boss", and whether the record sits inside a wrapper
\* {"action": {...}}
MoveActions == [action : ActionTypes,
                target : {"position", "no_position", "missing"},
                boss : BOOLEAN, wrapped : BOOLEAN]

MoveInit ==
    /\ mv_variant = "none"
    /\ mv_action = [action |-> "None", target |-> "missing", boss |-> FALSE,
                    wrapped |-> FALSE]
    /\ mv_events = <<>>
    /\ mv_ret = "none"

\* agents/movement_controller.py lines 43-48, controllers/... lines 14-19:
\* the action types with a handler
Handled(variant) ==
    IF variant = "agents" THEN {"move", "attack", "interact"}
    ELSE {"explore", "gather_resources", "move", "attack"}

\* the events a handler emits when the input device works
HandlerEvents(variant, a) ==
    IF variant = "agents"
    THEN CASE a.action = "move" -> <<"moveTo">>
           [] a.action = "attack" -> <<"moveTo", "rightClick", "press">>
           [] a.action = "interact" -> <<"moveTo", "click">>
    ELSE CASE a.action = "explore" -> <<"move", "move", "move", "move">>
           [] a.action = "gather_resources" -> <<"moveTo", "press">>
           [] a.action = "move" -> <<"moveTo">>
           [] a.action = "attack" -> <<"click">>

\* agents/movement_controller.py execute, lines 37-53: the events emitted
\* and how the call ends; deviceFails says that pyautogui raises.  A wrapped
\* record has a dict as its action type, which matches no branch; a handler
\* reads target['position'] and raises KeyError without it; every exception
\* is logged and swallowed.
ExecuteAgents(a, deviceFails) ==
    IF a.wrapped \/ a.action \notin Handled("agents")
    THEN [events |-> <<>>, ret |-> "returned"]
    ELSE IF a.target # "position" \/ deviceFails
    THEN [events |-> <<>>, ret |-> "returned"]
    ELSE [events |-> HandlerEvents("agents", a), ret |-> "returned"]

\* controllers/movement_controller.py execute, lines 23-60: a wrapped record
\* is unwrapped; a missing type and a type without handler raise ValueError,
\* which the except logs and re-raises, as it does the device's exception;
\* handlers default a missing position to [0, 0]
ExecuteControllers(a, deviceFails) ==
    IF a.action \notin Handled("controllers")
    THEN [events |-> <<>>, ret |-> "raised"]
    ELSE IF deviceFails THEN [events |-> <<>>, ret |-> "raised"]
    ELSE [events |-> HandlerEvents("controllers", a), ret |-> "returned"]

\* one call of execute(action) on a controller
MoveExecute ==
    /\ \E variant \in Controllers, a \in MoveActions, deviceFails \in BOOLEAN :
          LET out == IF variant = "agents" THEN ExecuteAgents(a, deviceFails)
                     ELSE ExecuteControllers(a, deviceFails)
          IN  /\ mv_variant' = variant
              /\ mv_action' = a
              /\ mv_events' = out.events
              /\ mv_ret' = out.ret
    /\ MoveFrame

NextMove == MoveExecute

(***************************************************************************)
(* ConfigLoader                                                            *)
(***************************************************************************)
MaxKeyLen == 3        \* cap on the number of segments of a dotted key

ConfigKeys == {"llm", "api_key"}
Segments == {"llm", "api_key", "x"}

\* the values of a YAML document: scalars, strings, lists and mappings; a
\* mapping is kept as the function from its keys to its values
Leaves == {[t |-> "int"], [t |-> "none"], [t |-> "str"], [t |-> "list"]}

MappingsOver(vals) ==
    { [t |-> "map", m |-> f] :
        f \in UNION { [d -> vals] : d \in SUBSET ConfigKeys } }

Documents == MappingsOver(Leaves \cup MappingsOver(Leaves))

\* dotted keys, as the list key.split('.') makes of them
DottedKeys == BoundedSeq(Segments, MaxKeyLen) \ {<<>>}

ConfigInit ==
    /\ config = None
    /\ cfg_load = "none"
    /\ cfg_get = [called |-> FALSE]

\* ConfigLoader.__init__ with _load_config, lines 8-24: doc is what
\* yaml.safe_load returns, envSet says LLM_API_KEY is set, contains is the
\* outcome of 'api_key' in config['llm'] when llm is a string or a list.
\* A document without llm raises KeyError, an llm that is a number or null
\* raises TypeError at the `in`, a string or list that contains 'api_key'
\* raises TypeError at the subscript.
ConfigLoad ==
    /\ cfg_load = "none"
    /\ \E doc \in Documents, envSet, contains \in BOOLEAN :
          LET hasLlm == "llm" \in DOMAIN doc.m
              llm == doc.m["llm"]
              fails == \/ ~hasLlm
                       \/ llm.t \in {"int", "none"}
                       \/ llm.t \in {"str", "list"} /\ contains
              subst == hasLlm /\ llm.t = "map" /\ "api_key" \in DOMAIN llm.m
                       /\ envSet
              loaded == IF subst
                        THEN [doc EXCEPT !.m["llm"].m["api_key"] = [t |-> "str"]]
                        ELSE doc
          IN  IF fails
              THEN /\ cfg_load' = "raised" /\ UNCHANGED config
              ELSE /\ cfg_load' = "loaded" /\ config' = Some(loaded)
    /\ UNCHANGED cfg_get
    /\ ConfigFrame

\* get, lines 29-36: the loop over keys from segment i on.  value[k] raises
\* KeyError on a mapping without k, which the except turns into default, and
\* TypeError on a number, null, a string or a list, which nothing catches.
RECURSIVE GetFrom(_, _, _)
GetFrom(value, keys, i) ==
    IF i > Len(keys) THEN [out |-> "value", value |-> value]
    ELSE IF value.t = "map"
    THEN IF keys[i] \in DOMAIN value.m
         THEN GetFrom(value.m[keys[i]], keys, i + 1)
         ELSE [out |-> "default", value |-> value]
    ELSE [out |-> "raised", value |-> value]

\* get(key, default), lines 26-36
ConfigGet ==
    /\ cfg_load = "loaded"
    /\ \E keys \in DottedKeys :
          LET r == GetFrom(TheVal(config), keys, 1)
          IN  cfg_get' = [called |-> TRUE, keys |-> keys, out |-> r.out,
                          value |-> IF r.out = "value" THEN Some(r.value)
                                    ELSE None]
    /\ UNCHANGED <<config, cfg_load>>
    /\ ConfigFrame

NextConfig == ConfigLoad \/ ConfigGet

(***************************************************************************)
(* parse_health_mana                                                       *)
(***************************************************************************)
MaxPoints == 9        \* largest number written in a health or mana string

\* the values given to parse_health_mana: "c/m", "p%" and "v" with numbers,
\* the same shapes with something int() rejects ("ab/10", "x%"), a string
\* with two slashes, a string of superscript digits (isdigit() holds, int()
\* raises), another text, and a value that is no string
HealthValues ==
    [kind : {"slash"}, a : 0..MaxPoints, b : 0..MaxPoints]
    \cup [kind : {"percent", "digits"}, a : 0..MaxPoints, b : {0}]
    \cup [kind : {"slash_bad", "slash_twice", "percent_bad", "digits_bad",
                  "text", "not_str"}, a : {0}, b : {0}]

Absent3 == [current |-> None, max |-> None, percent |-> None]

HealthInit ==
    /\ hm_value = [kind |-> "text", a |-> 0, b |-> 0]
    /\ hm_ret = None

\* line 314: int(current / max_val * 100) if max_val > 0 else 0; int()
\* truncates, and for the numbers of the model the float product is the exact
\* quotient or above it, so the result is the integer quotient
Percent(current, max_val) ==
    IF max_val > 0 THEN (current * 100) \div max_val ELSE 0

\* parse_health_mana, lines 299-344; every exception raised in the try is
\* logged and falls through to the final return
ParseHealthMana(value) ==
    CASE value.kind = "slash" ->
            [current |-> Some(value.a), max |-> Some(value.b),
             percent |-> Some(Percent(value.a, value.b))]
      [] value.kind = "percent" ->
            [current |-> Some(value.a), max |-> Some(100),
             percent |-> Some(value.a)]
      [] value.kind = "digits" ->
            [current |-> Some(value.a), max |-> None, percent |-> None]
      [] OTHER -> Absent3

\* one call of parse_health_mana(value)
ParseHealthManaCall ==
    /\ \E value \in HealthValues :
          /\ hm_value' = value
          /\ hm_ret' = Some(ParseHealthMana(value))
    /\ HealthFrame

NextHealth == ParseHealthManaCall

(***************************************************************************)
(* TemplateCapture                                                         *)
(***************************************************************************)
MaxSamples == 2       \* cap on the number of samples stored

\* line 11: self.capture_size = 160, in units of 40 pixels
CaptureSize == 4

\* the size of the screen ImageGrab.grab() returns, in the same units
ScreenW == 7
ScreenH == 6

TemplateInit ==
    /\ templates = [npc |-> <<>>, enemy |-> <<>>]
    /\ tc_last = [called |-> FALSE]

\* an index of a slice as Python and numpy normalise it against a dimension
\* of length n: a negative index counts from the end, and the result is
\* clamped to 0..n
SliceIndex(i, n) ==
    LET j == IF i < 0 THEN i + n ELSE i
    IN  IF j < 0 THEN 0 ELSE IF j > n THEN n ELSE j

\* the length of a[start:stop] for a dimension of length n
SliceLen(start, stop, n) ==
    LET a == SliceIndex(start, n)
        b == SliceIndex(stop, n)
    IN  IF b > a THEN b - a ELSE 0

\* line 38: the shape of frame[y - half:y + half, x - half:x + half]
RoiShape(x, y) ==
    LET half == CaptureSize \div 2
    IN  [h |-> SliceLen(y - half, y + half, ScreenH),
         w |-> SliceLen(x - half, x + half, ScreenW)]

\* _capture_template(x, y, obj_type), lines 30-52, at the mouse position the
\* run loop read; grabFails says ImageGrab.grab() raises, which the except
\* prints
CaptureTemplate ==
    /\ Len(templates.npc) + Len(templates.enemy) < MaxSamples
    /\ \E x \in 0..(ScreenW - 1), y \in 0..(ScreenH - 1),
          obj_type \in {"npc", "enemy"}, grabFails \in BOOLEAN :
          LET roi == RoiShape(x, y)
              stored == ~grabFails /\ roi.h * roi.w # 0
          IN  /\ templates' = IF stored
                              THEN [templates EXCEPT ![obj_type] = Append(@, roi)]
                              ELSE templates
              /\ tc_last' = [called |-> TRUE, x |-> x, y |-> y,
                             obj_type |-> obj_type, stored |-> stored]
    /\ TemplateFrame

NextTemplate == CaptureTemplate

(***************************************************************************)
(* WoWGameStateParser                                                      *)
(***************************************************************************)
MaxBlocks == 2        \* cap on the number of text blocks of a response

\* self.screen_width, self.screen_height as detect_screen_size reads them
\* from the response, lines 53-69
ScreenWidth == 20
ScreenHeight == 20

\* the texts of the blocks: a time, a combat message, a name, a level, a
\* health value, a text of two letters
BlockTexts == {"12:30", "In Combat", "Wolf", "42", "80/100", "ab"}

\* the centres of the blocks
CentersX == {1, 10, 19}
CentersY == {1, 5, 18}

TextBlocks == [text : BlockTexts, center_x : CentersX, center_y : CentersY]

\* lines 139-144, 146-151, 153-159: x > 0.7 W is 10 x > 7 W, and so on
IsInTopRight(block) ==
    block.center_x * 10 > ScreenWidth * 7 /\ block.center_y * 100 < ScreenHeight * 15

IsInPlayerInfoArea(block) ==
    block.center_x * 10 < ScreenWidth * 3 /\ block.center_y * 10 < ScreenHeight * 3

IsInBottomActionBar(block) ==
    /\ block.center_y * 100 > ScreenHeight * 85
    /\ block.center_x * 10 > ScreenWidth
    /\ block.center_x * 10 < ScreenWidth * 9

\* lines 161-191 on the texts above: ^\d+/\d+$ or ^\d+%$ or all digits
IsHealthManaValue(text) == text \in {"80/100", "42"}

\* ^[\w'\s-]{2,20}$ and no digit
IsPlayerName(text) == text \in {"In Combat", "Wolf", "ab"}

\* ^\d{1,2}:\d{2}$
IsTime(text) == text = "12:30"

\* all digits and 1 <= int(text) <= 70
IsLevel(text) == text = "42"

\* longer than 2, not all digits, not \d+/\d+, not a time
IsEntityName(text) == text \in {"In Combat", "Wolf"}

\* line 255: "бой" in text.lower() or "combat" in text.lower()
IsCombatText(text) == text = "In Combat"

ParserInit ==
    /\ text_blocks = None
    /\ parsed_state = None

\* lines 207-223: the record and the candidate lists before the loop
ParseStart ==
    [location |-> <<>>, player_name |-> None, level |-> <<>>, health |-> <<>>,
     mana |-> <<>>, time |-> None, combat |-> <<>>, nearby |-> <<>>]

\* one pass of the loop, lines 226-267
ParseBlock(acc, block) ==
    LET text == block.text
        cand == [y |-> block.center_y, text |-> text]
    IN  IF IsInTopRight(block)
        THEN [acc EXCEPT !.location = Append(@, cand)]
        ELSE IF IsInPlayerInfoArea(block)
        THEN IF acc.player_name = None /\ IsPlayerName(text)
             THEN [acc EXCEPT !.player_name = Some(text)]
             ELSE IF IsLevel(text)
             THEN [acc EXCEPT !.level = Append(@, cand)]
             ELSE IF IsHealthManaValue(text)
             THEN IF acc.health = <<>> \/ block.center_y < acc.health[1].y
                  THEN [acc EXCEPT !.health = Append(@, cand)]
                  ELSE [acc EXCEPT !.mana = Append(@, cand)]
             ELSE acc
        ELSE IF IsTime(text)
        THEN [acc EXCEPT !.time = Some(text)]
        ELSE IF IsCombatText(text)
        THEN [acc EXCEPT !.combat = Append(@, text)]
        ELSE IF IsInBottomActionBar(block)
        THEN acc
        ELSE IF IsEntityName(text)
        THEN IF \E i \in 1..Len(acc.nearby) : acc.nearby[i] = text
             THEN acc
             ELSE [acc EXCEPT !.nearby = Append(@, text)]
        ELSE acc

\* the loop of line 225 over the blocks in their order
RECURSIVE ParseBlocks(_, _)
ParseBlocks(acc, blocks) ==
    IF blocks = <<>> THEN acc
    ELSE ParseBlocks(ParseBlock(acc, Head(blocks)), Tail(blocks))

\* lines 270-291: candidates.sort(key=lambda x: x[0]) is stable, and its
\* first element's text is taken (None when there is no candidate)
Topmost(cands) ==
    IF cands = <<>> THEN None
    ELSE LET i == CHOOSE i \in 1..Len(cands) :
                    \A j \in 1..Len(cands) :
                        \/ cands[j].y > cands[i].y
                        \/ cands[j].y = cands[i].y /\ j >= i
         IN  Some(cands[i].text)

\* parse_game_state, lines 193-296
ParseGameState(blocks) ==
    LET acc == ParseBlocks(ParseStart, blocks)
    IN  [location |-> Topmost(acc.location),
         player_name |-> acc.player_name,
         health |-> Topmost(acc.health),
         mana |-> Topmost(acc.mana),
         level |-> Topmost(acc.level),
         time |-> acc.time,
         in_combat |-> Len(acc.combat) > 0,
         nearby_entities |-> acc.nearby]

\* the constructor, lines 41-51, for a response with these text blocks
ParserConstruct ==
    /\ text_blocks = None
    /\ \E blocks \in BoundedSeq(TextBlocks, MaxBlocks) :
          text_blocks' = Some(blocks)
    /\ UNCHANGED parsed_state
    /\ ParserFrame

\* one parse_game_state() call
ParseGameStateCall ==
    /\ text_blocks # None
    /\ parsed_state = None
    /\ parsed_state' = Some(ParseGameState(TheVal(text_blocks)))
    /\ UNCHANGED text_blocks
    /\ ParserFrame

NextParser == ParserConstruct \/ ParseGameStateCall

(***************************************************************************)
(* MovementController.move_to                                              *)
(***************************************************************************)
\* MovementConfig, lines 13-18, and the threshold of line 121, in pixels
Precision == 5
PathfindingStep == 50
PathfindingDistance == 100

\* what pyautogui.position() returns, and the positions move_to is given
CursorPositions == {<<0, 0>>, <<200, 150>>}
TargetPositions == {0, 60, 100} \X {0, 80}

PathInit == mt_call = [called |-> FALSE]

\* int(v) of a quotient num / den with den > 0: truncation towards zero
IntTrunc(num, den) ==
    IF num >= 0 THEN num \div den ELSE -((-num) \div den)

\* math.dist(start, end) squared
Dist2(start, end) ==
    (end[1] - start[1]) * (end[1] - start[1])
        + (end[2] - start[2]) * (end[2] - start[2])

\* a test that also takes a distance of exactly the threshold
ShouldUsePathfindingInclusive(start, end) ==
    Dist2(start, end) >= PathfindingDistance * PathfindingDistance

\* _should_use_pathfinding, lines 118-121: distance > 100
ShouldUsePathfinding(start, end) ==
    Dist2(start, end) > PathfindingDistance * PathfindingDistance

\* line 144: int(distance / self.config.pathfinding_step), the greatest k
\* with k * step <= distance
RECURSIVE StepsFrom(_, _)
StepsFrom(k, d2) ==
    IF (k + 1) * (k + 1) * PathfindingStep * PathfindingStep > d2 THEN k
    ELSE StepsFrom(k + 1, d2)

StepsCount(start, end) == StepsFrom(0, Dist2(start, end))

\* _calculate_path, lines 138-154
CalculatePath(start, end) ==
    LET n == StepsCount(start, end)
        dx == end[1] - start[1]
        dy == end[2] - start[2]
        inner == IF n > 1
                 THEN [i \in 1..(n - 1) |->
                          <<IntTrunc(start[1] * n + dx * i, n),
                            IntTrunc(start[2] * n + dy * i, n)>>]
                 ELSE <<>>
    IN  Append(inner, end)

\* move_to, lines 55-70, with _apply_randomness (107-116),
\* _move_with_pathfinding (123-128) and _direct_move (130-136): the points
\* pyautogui.moveTo is called with, in their order
MoveTo(current_pos, position, jx, jy) ==
    LET end == <<position[1] + jx, position[2] + jy>>
    IN  IF ShouldUsePathfinding(current_pos, end)
        THEN [end |-> end, mode |-> "pathfinding",
              moves |-> CalculatePath(current_pos, end)]
        ELSE [end |-> end, mode |-> "direct", moves |-> <<end>>]

\* one move_to(position) call
MoveToCall ==
    /\ \E current_pos \in CursorPositions, position \in TargetPositions,
          jx \in (-Precision)..Precision, jy \in (-Precision)..Precision :
          LET m == MoveTo(current_pos, position, jx, jy)
          IN  mt_call' = [called |-> TRUE, start |-> current_pos,
                          position |-> position, end |-> m.end,
                          mode |-> m.mode, moves |-> m.moves]
    /\ PathFrame

NextPath == MoveToCall

Init == TokenInit /\ BotInit /\ EnvInit /\ PlannerInit /\ GenInit /\
        ValInit /\ CodeGenInit /\ SkillInit /\ VisionInit /\ MoveInit /\
        ConfigInit /\ HealthInit /\ TemplateInit /\ ParserInit /\ PathInit

SpecToken == Init /\ [][NextToken]_vars

SpecBot == Init /\ [][NextBot]_vars

SpecEnv == Init /\ [][NextEnv]_vars

SpecPlanner == Init /\ [][NextPlanner]_vars

SpecGen == Init /\ [][NextGen]_vars

SpecVal == Init /\ [][NextVal]_vars

SpecCodeGen == Init /\ [][NextCodeGen]_vars

SpecExec == Init /\ [][NextExec]_vars

SpecSkill == Init /\ [][NextSkill]_vars

SpecVision == Init /\ [][NextVision]_vars
\* requests.post returns or raises within its timeout (line 204) and
\* time.sleep returns, so a pass of the loop that is due does happen
SpecVisionLive == SpecVision /\ WF_vars(SendRequestAttempt)

SpecMove == Init /\ [][NextMove]_vars

SpecConfig == Init /\ [][NextConfig]_vars

SpecHealth == Init /\ [][NextHealth]_vars

SpecTemplate == Init /\ [][NextTemplate]_vars

SpecParser == Init /\ [][NextParser]_vars

SpecPath == Init /\ [][NextPath]_vars

(***************************************************************************)
(* Claims                                                                  *)
(***************************************************************************)

\* a token is cached and now < expires_at
C1_InWindow == iam_token # None /\ expires_at # None /\ utcnow < TheVal(expires_at)

\* the expiry a successful exchange answered by resp has to cache
C1_NewExpiry(resp) ==
    IF resp.expiresAt = None THEN utcnow + Lifetime ELSE TheVal(resp.expiresAt).time

\* C1: every get_iam_token() call made while a token is cached and
\* now < expires_at performs no exchange and returns the cached token, leaving
\* the cache alone; every call made with no cached token or with
\* now >= expires_at performs exactly one exchange and, when that exchange
\* succeeds, returns and caches the new token together with the new expiry.
C1_TokenCaching ==
    [][ utcnow' = utcnow =>
          /\ C1_InWindow =>
                /\ exchanges' = exchanges
                /\ tokCall'.ret = iam_token /\ ~tokCall'.raised
                /\ UNCHANGED <<iam_token, expires_at>>
          /\ ~C1_InWindow =>
                /\ exchanges' = exchanges + 1
                /\ ~tokCall'.raised =>
                      /\ iam_token' = Some(tokCall'.resp.token)
                      /\ tokCall'.ret = iam_token'
                      /\ expires_at' = Some(C1_NewExpiry(tokCall'.resp)) ]_vars

\* C1 witness: with every exchange successful, a call was served from the
\* cache and, after the expiry passed, a second exchange has just been made.
C1_Witness ==
    /\ ~tokLog.failed /\ tokLog.hit
    /\ exchanges = 2 /\ tokCall.kind = "exchange" /\ ~tokCall.raised

\* the step in which a component call of the current iteration raised
C2_RaisedNow ==
    \/ pc = "collect" /\ iter'.envOut = "raised"
    \/ pc = "plan" /\ iter'.planOut = "raised"
    \/ pc = "executing" /\ iter'.execOut = "raised"

\* C2: an error raised by the perception, planning or execution step of an
\* iteration never ends the run loop: the step that raised leaves the main
\* thread at the tail of the iteration, the tail leads to the head of the next
\* iteration, and the loop is left only by a keyboard interrupt.
C2_ErrorsContained ==
    [][ (pc \in LoopPcs) =>
          /\ (pc' \notin LoopPcs) =>
                (pc' = "shutdown" /\ shutdownLog'.why = "interrupt")
          /\ C2_RaisedNow => (pc' = "loop_tail")
          /\ (pc = "loop_tail" /\ pc' \in LoopPcs) => (pc' = "loop_top") ]_vars

\* C2 witness: two iterations raised errors that reached run(), and a third
\* iteration is under way.
C2_Witness == error_count = 2 /\ loop_counter = 3 /\ pc = "plan"

\* C3: within one iteration plan_action is called only after get_game_state
\* returned "success" and mover.execute only after plan_action returned
\* "success"; after a get_game_state that returned another status or raised,
\* neither is called and action_history is as long as at the iteration's start;
\* after a plan_action that returned another status or raised, mover.execute
\* is not called and action_history is as long as at the iteration's start.
C3_OrderAndSkip ==
    /\ iter.env <= 1 /\ iter.plan <= 1 /\ iter.exec <= 1
    /\ iter.plan > 0 => iter.env = 1 /\ iter.envOut = "success"
    /\ iter.exec > 0 => iter.plan = 1 /\ iter.planOut = "success"
    /\ iter.envOut \in {"nonsuccess", "raised"} =>
          iter.plan = 0 /\ iter.exec = 0 /\ Len(action_history) = iter.hist
    /\ iter.planOut \in {"nonsuccess", "raised"} =>
          iter.exec = 0 /\ Len(action_history) = iter.hist

\* C3 witness: after an iteration that executed an action, an iteration whose
\* get_game_state returned a status other than "success" has reached its tail.
C3_Witness ==
    /\ pc = "loop_tail" /\ iter.envOut = "nonsuccess"
    /\ Len(action_history) = 1 /\ Len(moverLog) = 1

\* C4: at the end of an iteration in which get_game_state returned "success"
\* and the planner returned a successful action, mover.execute was called
\* exactly once, with that action, and exactly one entry was appended to
\* action_history: {timestamp, action, game_state without the frame key}.
C4_OneExecuteOneEntry ==
    (pc = "loop_tail" /\ iter.envOut = "success" /\ iter.planOut = "success"
        /\ action # None) =>
        /\ iter.exec = 1
        /\ Len(moverLog) > 0 /\ moverLog[Len(moverLog)].action = TheVal(action)
        /\ Len(action_history) = iter.hist + 1
        /\ LET entry == action_history[Len(action_history)]
               gs == TheVal(game_state)
           IN  /\ DOMAIN entry = {"timestamp", "action", "game_state"}
               /\ entry.action = TheVal(action)
               /\ entry.timestamp <= botClock
               /\ DOMAIN entry.game_state = DOMAIN gs \ {"frame"}
               /\ \A k \in DOMAIN entry.game_state : entry.game_state[k] = gs[k]

\* C4 witness: an iteration whose game state carried a frame has executed its
\* action and reached its tail.
C4_Witness ==
    /\ pc = "loop_tail" /\ iter.exec = 1 /\ iter.execOut = "returned"
    /\ game_state # None /\ "frame" \in DOMAIN TheVal(game_state)

\* C5 as claimed: every entry of action_history belongs to a mover.execute
\* call that returned without raising, and an iteration whose mover.execute
\* raised has left action_history as it was.
C5_AppendedAfterSuccess ==
    /\ \A i \in 1..Len(action_history) :
          i <= Len(moverLog) /\ moverLog[i].state = "returned"
    /\ iter.execOut = "raised" => Len(action_history) = iter.hist

\* C5 amended: the entry is appended before mover.execute is called and stays
\* whatever the call does: every mover.execute call has its entry, at most
\* the newest entry has no call yet, and an iteration whose mover.execute
\* raised has left exactly its one entry in action_history.
C5_AppendedBeforeExecute ==
    /\ Len(moverLog) <= Len(action_history)
    /\ Len(action_history) <= Len(moverLog) + 1
    /\ \A i \in 1..Len(moverLog) : action_history[i].action = moverLog[i].action
    /\ Len(action_history) = Len(moverLog) + 1 => pc \in {"call_mover", "shutdown", "stopped"}
    /\ iter.execOut = "raised" => Len(action_history) = iter.hist + 1

\* C5 witness: mover.execute raised in this iteration and the entry is there.
C5_Witness ==
    /\ iter.execOut = "raised" /\ Len(action_history) = iter.hist + 1
    /\ moverLog[Len(moverLog)].state = "raised"

\* C6 as claimed: whenever the process has stopped, after a keyboard
\* interrupt, a loop error or a startup error, env.cleanup() was called and
\* the final statistics were logged.
C6_ShutdownAlwaysRuns ==
    pc \in {"stopped", "crashed"} => shutdownLog.cleanup /\ shutdownLog.stats

\* C7 as claimed: when the shutdown routine starts, no mover.execute call has
\* been cut short: every call that was started has run to its end.
C7_ActionCompletesBeforeShutdown ==
    pc \in {"shutdown", "stopped"} =>
        \A i \in 1..Len(moverLog) : moverLog[i].state \in {"returned", "raised"}

\* C8: once get_game_state() has been called on a facade whose capture
\* backend raised on every read, no call has raised and the record returned
\* has status "error" and a non-empty reason string.
C8_FaultIsolation ==
    (envLog.calls > 0 /\ envLog.reads > 0 /\ envLog.allRaised) =>
        /\ ~envRet.raised
        /\ "status" \in DOMAIN envRet.rec /\ envRet.rec.status = "error"
        /\ "reason" \in DOMAIN envRet.rec /\ envRet.rec.reason # ""

\* C9: every record returned by a facade's get_game_state() has a status,
\* "success" or "error"; with "success" the frame field is present and reason
\* is absent; with "error" reason is present.
C9_StateRecordInvariant ==
    (envLog.calls > 0 /\ ~envRet.raised) =>
        /\ "status" \in DOMAIN envRet.rec
        /\ envRet.rec.status \in {"success", "error"}
        /\ envRet.rec.status = "success" =>
              "frame" \in DOMAIN envRet.rec /\ "reason" \notin DOMAIN envRet.rec
        /\ envRet.rec.status = "error" => "reason" \in DOMAIN envRet.rec

\* the action vocabulary of the specification
FixedVocabulary == {"move", "attack", "interact", "explore", "gather_resources",
                    "revive"}

\* the answer of the last call parses to an object with action, target and
\* reason whose action is in the fixed vocabulary
C10_WellFormed ==
    /\ ~planRet.promptFails /\ planRet.resp.envelope = "ok"
    /\ planRet.resp.text.fence # "plain"
    /\ planRet.resp.text.body.kind = "object"
    /\ {"action", "target", "reason"} \subseteq DOMAIN planRet.resp.text.body.obj
    /\ planRet.resp.text.body.obj.action \in FixedVocabulary

\* C10: plan_action never raises; after a call whose LLM answer parses to an
\* object with action, target and reason and an action of the fixed
\* vocabulary, the record returned has status "success" with the action and
\* the reason, and the result was appended to the planner's history; after
\* any other call the record returned is {status: "error", action: None,
\* reason: message} and the history is as it was.
C10_PlanActionContract ==
    planRet.called =>
        /\ ~planRet.raised
        /\ C10_WellFormed =>
              /\ "status" \in DOMAIN planRet.rec /\ planRet.rec.status = "success"
              /\ {"action", "reason"} \subseteq DOMAIN planRet.rec
              /\ planRet.rec.action = planRet.resp.text.body.obj.action
              /\ Len(planner_history) = planRet.hist + 1
        /\ ~C10_WellFormed =>
              /\ DOMAIN planRet.rec = {"status", "action", "reason"}
              /\ planRet.rec.status = "error" /\ planRet.rec.action = "None"
              /\ Len(planner_history) = planRet.hist

\* the answer of the last call reached _validate_action as an object that has
\* the three required fields
C11_Validated ==
    /\ planRet.called /\ ~planRet.promptFails /\ planRet.resp.envelope = "ok"
    /\ planRet.resp.text.fence # "plain"
    /\ planRet.resp.text.body.kind = "object"
    /\ {"action", "target", "reason"} \subseteq DOMAIN planRet.resp.text.body.obj

\* C11: _validate_action accepts an action value if and only if it is one of
\* move, attack, interact, explore, gather_resources, revive: an answer with
\* one of these six values is returned as the plan, an answer with any other
\* value yields the planning-error record.
C11_ValidationVocabulary ==
    C11_Validated =>
        (planRet.rec # PlanError("planning error")
            <=> planRet.resp.text.body.obj.action \in FixedVocabulary)

\* C17: LLMAdapter.invoke keeps one response per serialized input, and an
\* invoke whose input is identical to that of an earlier successful invoke
\* makes no provider call, returns the response of that earlier invoke and
\* leaves the cache as it is.
C17_CachedInvoke ==
    /\ [](\A c, d \in llm_cache : c[1] = d[1] => c = d)
    /\ [][ \A c \in llm_cache :
              (planRet'.called /\ ~planRet'.promptFails /\ planRet'.key = c[1])
                 => /\ providerCalls' = providerCalls
                    /\ planRet'.resp = c[2]
                    /\ llm_cache' = llm_cache ]_vars

\* a second invoke with the input of an earlier successful one has returned
C17_Witness ==
    /\ planRet.called /\ ~planRet.promptFails /\ planRet.hit
    /\ planRet.n = 2 /\ providerCalls = 1
    /\ <<planRet.key, planRet.resp>> \in llm_cache

\* C12: generate_plan(state) returns [revive] when health is falsy, whatever
\* the lists hold; otherwise, with enemies, [move_to t, attack t] for one
\* target t of enemies; otherwise, with npcs, [move_to npcs[0]]; otherwise
\* [explore].
C12_GeneratePlan ==
    gen_state # None =>
        LET st == TheVal(gen_state)
        IN  /\ ~Truthy(st.health) => gen_plan = << [type |-> "revive"] >>
            /\ (Truthy(st.health) /\ st.enemies # <<>>) =>
                  \E i \in 1..Len(st.enemies) :
                     gen_plan = << [type |-> "move_to", target |-> st.enemies[i]],
                                   [type |-> "attack", target |-> st.enemies[i]] >>
            /\ (Truthy(st.health) /\ st.enemies = <<>> /\ st.npcs # <<>>) =>
                  gen_plan = << [type |-> "move_to", target |-> st.npcs[1]] >>
            /\ (Truthy(st.health) /\ st.enemies = <<>> /\ st.npcs = <<>>) =>
                  gen_plan = << [type |-> "explore"] >>

\* a dead character among enemies and npcs was told to revive
C12_Witness ==
    /\ gen_state # None
    /\ ~Truthy(TheVal(gen_state).health)
    /\ Len(TheVal(gen_state).enemies) = 2 /\ Len(TheVal(gen_state).npcs) = 1
    /\ gen_plan = << [type |-> "revive"] >>

\* the snippet parses and every call in it, nested or not, targets a simple
\* name of the validator's allow-list
C13_Strict(variant, snippet) ==
    /\ snippet.parses
    /\ \A i \in 1..Len(snippet.calls) :
          /\ snippet.calls[i].func.kind = "name"
          /\ snippet.calls[i].func.id \in AllowedFunctions(variant)

\* C13: each AST validator accepts a snippet if and only if the snippet
\* parses and every call expression in it, at any depth, targets a simple
\* name of the allow-list; calls through an attribute, a subscript or any
\* other expression, calls of other names and syntax errors are rejected.
C13_StrictValidation ==
    val_variant # "none" =>
        (Accepted(val_snippet, val_result) <=> C13_Strict(val_variant, val_snippet))

\* C14: code is executed only after the strict validator accepted it: every
\* code execute_code has run parses and calls nothing but simple names of the
\* allow-list, whichever generator it came from.
C14_StrictGateBeforeExec ==
    (exec_log.n > 0 /\ exec_log.ran) =>
        C13_Strict("safety_checker", TheVal(exec_log.last).snippet)

\* C15: generate_action_code makes at most max_retries LLM calls and at
\* most max_retries attempts; each failed attempt appends exactly one message
\* to error_feedback; it returns at the first attempt that passes validation,
\* with that attempt's code and without a further call; when every attempt
\* failed it returns None, after max_retries messages (none, and no LLM
\* call, when max_retries is 0).
C15_BoundedRetries ==
    /\ [](max_retries # None =>
            /\ cg_attempt <= TheVal(max_retries)
            /\ cg_call.llm_calls <= TheVal(max_retries)
            /\ (cg_call.n > 0 /\ ~(cg_call.done /\ cg_call.ret = "code")) =>
                  Len(error_feedback) = cg_call.fb0 + cg_attempt
            /\ (cg_call.done /\ cg_call.ret = "code") =>
                  /\ Len(error_feedback) = cg_call.fb0 + cg_attempt
                  /\ cg_call.llm_calls <= cg_attempt + 1
                  /\ handed # None /\ ValidateCode(TheVal(handed).code)
            /\ (cg_call.done /\ cg_call.ret = "None") =>
                  /\ cg_attempt = TheVal(max_retries)
                  /\ Len(error_feedback) = cg_call.fb0 + TheVal(max_retries)
            /\ cg_call.done <=> (cg_call.n > 0 /\ cg_pc = "idle"))
    /\ [][ (cg_pc = "loop") =>
              \/ /\ cg_pc' = "idle" /\ cg_call'.done
                 /\ error_feedback' = error_feedback
                 /\ cg_call'.llm_calls <= cg_call.llm_calls + 1
              \/ /\ cg_pc' = "loop" /\ cg_attempt' = cg_attempt + 1
                 /\ Len(error_feedback') = Len(error_feedback) + 1
                 /\ cg_call'.llm_calls <= cg_call.llm_calls + 1 ]_vars

\* a call returned code at its second attempt, after one recorded failure
C15_Witness ==
    /\ max_retries = Some(2) /\ cg_call.done /\ cg_call.ret = "code"
    /\ cg_attempt = 1 /\ cg_call.llm_calls = 2
    /\ Len(error_feedback) = cg_call.fb0 + 1

\* the first three words of the description all occur verbatim in the task
C16_Qualifies(desc, task) ==
    \A k \in 1..Len(desc) :
        k <= 3 => \E j \in 1..Len(task) : IsSubstring(desc[k], task[j])

\* find_skill returned the code of the first stored skill, in insertion
\* order, that qualifies, and None when no stored skill qualifies
C16_FirstQualifying ==
    skill_find.called =>
        LET t == skill_find.task
            Q == {i \in 1..Len(skills) : C16_Qualifies(skills[i].desc, t)}
        IN  /\ Q = {} => skill_find.ret = None
            /\ Q # {} =>
                  \E i \in Q : /\ \A j \in Q : i <= j
                               /\ skill_find.ret = Some(skills[i].code)

\* the task and the description have a word in common
C16_SharesToken(desc, task) ==
    \E i \in 1..Len(desc), j \in 1..Len(task) : desc[i] = task[j]

\* C16 as claimed: after any sequence of add_skill calls, find_skill(t)
\* returns the code of the first stored skill, in insertion order, whose
\* description's first three words all appear verbatim in t, and None when no
\* stored skill qualifies, so that a task sharing no word with any stored
\* description gets None.
C16_FindSkillSharedToken ==
    /\ C16_FirstQualifying
    /\ (skill_find.called
          /\ \A i \in 1..Len(skills) :
                ~C16_SharesToken(skills[i].desc, skill_find.task))
       => skill_find.ret = None

\* C16 as amended: find_skill(t) returns the code of the first stored skill,
\* in insertion order, whose description's first three words all occur in t
\* as substrings, and None when no stored skill qualifies; a stored
\* description without words qualifies for every task.
C16_FindSkill ==
    /\ C16_FirstQualifying
    /\ (skill_find.called /\ \E i \in 1..Len(skills) : skills[i].desc = <<>>)
       => skill_find.ret # None

\* the second of two stored skills was found: the first has a keyword the
\* task lacks, the second has a fourth word the task lacks
C16_Witness ==
    /\ skill_find.called /\ Len(skills) = 2
    /\ skill_find.ret = Some(skills[2].code)
    /\ ~C16_Qualifies(skills[1].desc, skill_find.task)
    /\ Len(skills[2].desc) = 4
    /\ \A j \in 1..Len(skill_find.task) :
          ~IsSubstring(skills[2].desc[4], skill_find.task[j])

\* C18: the vision request is retried only after HTTP 429 and after
\* connection or timeout errors: once any other HTTP error status has come
\* back, no further request is sent and the error is raised to the caller.
C18_RetryOnly429 ==
    /\ \A i \in 1..(Len(vis_sent) - 1) :
          vis_sent[i] \in {"429", "connection", "timeout"}
    /\ (vis_sent # <<>> /\ vis_sent[Len(vis_sent)] \in HttpErrors \ {"429"})
          => vis_ret = "raised"

\* C19: in every controller variant, execute given an action whose type has
\* no handler returns normally, without raising and without emitting a mouse
\* or keyboard event.
C19_UnknownActionIgnored ==
    (mv_variant # "none" /\ mv_action.action \notin Handled(mv_variant)) =>
        /\ mv_ret = "returned"
        /\ mv_events = <<>>

\* the value the first n segments of the key lead to, through nested
\* mappings; None when a segment is missing or its parent is no mapping
RECURSIVE C20_At(_, _, _)
C20_At(doc, keys, n) ==
    IF n = 0 THEN Some(doc)
    ELSE LET parent == C20_At(doc, keys, n - 1)
         IN  IF parent = None THEN None
             ELSE IF TheVal(parent).t # "map" THEN None
             ELSE IF keys[n] \notin DOMAIN TheVal(parent).m THEN None
             ELSE Some(TheVal(parent).m[keys[n]])

\* C20: get(key, default) never raises: it returns the nested value when
\* every segment of the key resolves through nested mappings, and default
\* when some segment is missing, also when a segment before it resolves to a
\* scalar or a list instead of a mapping.
C20_GetNeverRaises ==
    cfg_get.called =>
        /\ cfg_get.out # "raised"
        /\ C20_At(TheVal(config), cfg_get.keys, Len(cfg_get.keys)) # None =>
              /\ cfg_get.out = "value"
              /\ cfg_get.value = C20_At(TheVal(config), cfg_get.keys,
                                        Len(cfg_get.keys))
        /\ C20_At(TheVal(config), cfg_get.keys, Len(cfg_get.keys)) = None =>
              cfg_get.out = "default"

\* p is 100 * c / m rounded to a nearest integer
C21_IsRounded(p, c, m) ==
    /\ 2 * (100 * c - p * m) <= m
    /\ 2 * (p * m - 100 * c) <= m

\* C21: parse_health_mana on "c/m" with m > 0 returns current = c, max = m
\* and percent = round(100 * c / m), not capped at 100; on "p%" it returns
\* current = p, max = 100, percent = p; on a string of digits it returns
\* current alone; on any other value it returns the three fields absent.
C21_ParseHealthMana ==
    hm_ret # None =>
        LET r == TheVal(hm_ret)
            v == hm_value
        IN  /\ (v.kind = "slash" /\ v.b > 0) =>
                  /\ r.current = Some(v.a) /\ r.max = Some(v.b)
                  /\ r.percent # None
                  /\ C21_IsRounded(TheVal(r.percent), v.a, v.b)
            /\ v.kind = "percent" =>
                  r = [current |-> Some(v.a), max |-> Some(100),
                       percent |-> Some(v.a)]
            /\ v.kind = "digits" =>
                  r = [current |-> Some(v.a), max |-> None, percent |-> None]
            /\ v.kind \notin {"slash", "percent", "digits"} => r = Absent3

\* the capture region around (x, y) lies fully inside the screen
C22_Inside(x, y) ==
    /\ x - CaptureSize \div 2 >= 0 /\ x + CaptureSize \div 2 <= ScreenW
    /\ y - CaptureSize \div 2 >= 0 /\ y + CaptureSize \div 2 <= ScreenH

\* C22: a capture whose region reaches past the left, top, right or bottom
\* edge of the screen stores no sample, and every stored sample has the full
\* capture size in both dimensions.
C22_EdgeCaptureRejected ==
    /\ (tc_last.called /\ ~C22_Inside(tc_last.x, tc_last.y)) => ~tc_last.stored
    /\ \A t \in {"npc", "enemy"} : \A i \in 1..Len(templates[t]) :
          templates[t][i] = [h |-> CaptureSize, w |-> CaptureSize]

C27_InitFailureCleansUp ==
    (envInit.called /\ envInit.failing # "none") =>
        /\ envVariant = "failed" /\ envInit.raised
        /\ envInit.steps # <<>> /\ envInit.steps[Len(envInit.steps)] = envInit.failing
        /\ camera = "none"
        /\ envInit.created =>
              /\ TheVal(envInit.cleanup).stop_called
              /\ TheVal(envInit.cleanup).release_called

\* C24: _send_request always terminates, after at most max_retries requests.
\* It returns the response of the first request that succeeds; after failed
\* attempt number a (from 0) that is not the last it waits 2^a seconds before
\* the next request; after the last failed attempt it does not wait and
\* returns absent.
C24_SendRequestTerminates ==
    /\ [](vis_max_retries # None =>
            LET max == TheVal(vis_max_retries)
                n == Len(vis_sent)
            IN  /\ n <= max
                /\ \A i \in 1..Len(vis_slept) : vis_slept[i] = Pow2(i - 1)
                /\ \A i \in 1..n : vis_sent[i] = "200" => i = n /\ vis_ret = "json"
                /\ vis_pc = "loop" =>
                      /\ vis_attempt = n /\ n < max /\ Len(vis_slept) = n
                /\ vis_ret = "json" =>
                      /\ vis_pc = "idle" /\ n > 0 /\ vis_sent[n] = "200"
                      /\ Len(vis_slept) = n - 1
                /\ vis_ret = "None" =>
                      /\ vis_pc = "idle" /\ n = max
                      /\ Len(vis_slept) = IF max = 0 THEN 0 ELSE max - 1)
    /\ (vis_pc = "loop" ~> vis_pc = "idle")

\* every one of four attempts failed: waits of 1, 2 and 4 seconds, then absent
C24_Witness ==
    /\ vis_max_retries = Some(4) /\ vis_ret = "None"
    /\ Len(vis_sent) = 4 /\ vis_slept = <<1, 2, 4>>

\* the blocks without the i-th
C25_Without(blocks, i) ==
    [j \in 1..(Len(blocks) - 1) |-> IF j < i THEN blocks[j] ELSE blocks[j + 1]]

\* C25: a text block whose centre lies in the bottom action-bar region
\* contributes nothing to the parsed state: whatever its text, time,
\* in_combat and nearby_entities are what they are without that block.
C25_ActionBarExcluded ==
    (text_blocks # None /\ parsed_state # None) =>
        \A i \in 1..Len(TheVal(text_blocks)) :
            IsInBottomActionBar(TheVal(text_blocks)[i]) =>
                LET rest == ParseGameState(C25_Without(TheVal(text_blocks), i))
                IN  /\ TheVal(parsed_state).time = rest.time
                    /\ TheVal(parsed_state).in_combat = rest.in_combat
                    /\ TheVal(parsed_state).nearby_entities = rest.nearby_entities

\* v lies between a and b
C26_Between(a, v, b) == (a <= v /\ v <= b) \/ (b <= v /\ v <= a)

\* what holds of every move_to call whatever the threshold test: the end is
\* the position moved by at most the precision, a direct move goes to the end
\* alone, and a waypointed path has at least one intermediate point, all of
\* them between the cursor and the end, and ends exactly at the end
C26_PathShape ==
    /\ C26_Between(-Precision, mt_call.end[1] - mt_call.position[1], Precision)
    /\ C26_Between(-Precision, mt_call.end[2] - mt_call.position[2], Precision)
    /\ mt_call.mode = "direct" => mt_call.moves = <<mt_call.end>>
    /\ mt_call.mode = "pathfinding" =>
          /\ Len(mt_call.moves) >= 2
          /\ mt_call.moves[Len(mt_call.moves)] = mt_call.end
          /\ \A i \in 1..(Len(mt_call.moves) - 1) :
                /\ C26_Between(mt_call.start[1], mt_call.moves[i][1], mt_call.end[1])
                /\ C26_Between(mt_call.start[2], mt_call.moves[i][2], mt_call.end[2])

\* C26 as stated: move_to uses waypointed movement exactly when the distance
\* from the cursor to the jittered target is at or above 100 px, and a direct
\* move below; a waypointed path has at least one intermediate point, every
\* intermediate point lies between start and end, and its last point is the
\* target.
C26_WaypointedFrom100 ==
    mt_call.called =>
        /\ (mt_call.mode = "pathfinding") =
              (Dist2(mt_call.start, mt_call.end) >= 100 * 100)
        /\ C26_PathShape

\* C26 amended: waypointed movement exactly when the distance is above
\* 100 px, a direct move at 100 px and below; the path as stated.
C26_WaypointedAbove100 ==
    mt_call.called =>
        /\ (mt_call.mode = "pathfinding") =
              (Dist2(mt_call.start, mt_call.end) > 100 * 100)
        /\ C26_PathShape

\* a waypointed move back towards the origin over four intermediate points
C26_Witness ==
    /\ mt_call.called /\ mt_call.mode = "pathfinding"
    /\ mt_call.start = <<200, 150>> /\ mt_call.end[1] < 0
    /\ Len(mt_call.moves) = 5

\* C28: a get_iam_token() call that raises leaves the cached iam_token and
\* expires_at exactly as they were before the call.
C28_FailedCallLeavesCache ==
    [][ (exchanges' = exchanges + 1 /\ tokCall'.raised) =>
            /\ iam_token' = iam_token
            /\ expires_at' = expires_at
      ]_vars

\* C29: every action type that passes the planner's validation has a handler
\* in the movement controller: execute, given a flat record with such a type,
\* does not meet a type without handler.
C29_AcceptedActionsHandled ==
    (mv_variant # "none" /\ ~mv_action.wrapped
        /\ mv_action.action \in AcceptedActions)
    => mv_action.action \in Handled(mv_variant)

\* C30: after add_skill(d, c), whatever skills were added before, a lookup
\* find_skill(d) with that same description returns c.
C30_AddThenFind ==
    (skill_find.called /\ skill_adds > 0
        /\ \E i \in 1..Len(skills) :
              skills[i].code = skill_adds /\ skills[i].desc = skill_find.task)
    => skill_find.ret = Some(skill_adds)

====
